---- MODULE Spec2Model ----
(***************************************************************************)
(* A model of the ElderCare ("Athena") turn orchestration engine:          *)
(*   app/agent/agent_graph.py   the LangGraph workflow and its nodes       *)
(*   app/crud/crud_entity.py    the entity store                           *)
(*   streamlit_app.py           the chat loop that runs one turn per prompt*)
(*                                                                         *)
(* Text produced by a language model is a sequence of tokens; the parsing  *)
(* steps of the code (split, regular-expression search, raw_decode) are    *)
(* operators on such sequences.  Optional values are records with an       *)
(* isNone flag, optional strings use the string Null.                      *)
(***************************************************************************)
EXTENDS Integers, Sequences, FiniteSets, TLC

VARIABLES
    state,      \* the AgentState threaded through the nodes of one turn
    pc,         \* "idle", the name of the node to run next, or "END"
    trace,      \* the nodes executed so far in the current turn
    db,         \* the user_entities table, in id order
    users,      \* the users table: user id -> profile columns
    session,    \* st.session_state of the chat loop
    toolCalls,  \* the capability calls made in the current turn
    cfg,        \* which model clients and tool services were initialised
    obs,        \* what the collaborators returned in the current turn
    prompts,    \* number of prompts submitted so far
    probe       \* input and result of a function applied on its own

vars == <<state, pc, trace, db, users, session, toolCalls, cfg, obs, prompts, probe>>

-----------------------------------------------------------------------------
(* Bounds of the model *)

MaxPrompts == 2        \* prompts submitted in one session
MaxBatch == 2          \* facts in one model completion
MaxTextLen == 5        \* tokens of a completion given to the extractor alone
MaxRouterLen == 3      \* tokens of a routing completion given to the router alone

-----------------------------------------------------------------------------
(* Optional values *)

Null == "None"
None == [isNone |-> TRUE]
Some(v) == [isNone |-> FALSE, v |-> v]

Min(S) == CHOOSE x \in S : \A y \in S : x <= y

RECURSIVE SeqsUpTo(_, _)
SeqsUpTo(S, n) ==
    IF n = 0 THEN {<<>>}
    ELSE LET shorter == SeqsUpTo(S, n - 1)
         IN shorter \cup {Append(s, x) : s \in {t \in shorter : Len(t) = n - 1}, x \in S}

-----------------------------------------------------------------------------
(* Tokens of a model completion *)

LB == "{"
RB == "}"
MEM == "m"                \* a member of a JSON object that holds no braces
PROSE == "w"              \* a word of prose
FENCE_OPEN == "[fence json]"   \* three backquotes and the word json
FENCE_CLOSE == "[fence]"       \* three backquotes
THINK_OPEN == "<think>"
THINK_CLOSE == "</think>"

TextTokens == {LB, RB, MEM, PROSE, FENCE_OPEN, FENCE_CLOSE, THINK_OPEN, THINK_CLOSE}

-----------------------------------------------------------------------------
(* The structured-output extractor: the steps every extraction node applies *)
(* to a completion (agent_graph.py lines 158-162, 205-211, 235-243, 327-335) *)

\* re.sub(r"<think>.*?</think>", "", text, flags=re.DOTALL): every leftmost,
\* shortest reasoning block is removed; the text removed is not scanned again.
RECURSIVE StripThink(_)
StripThink(t) ==
    LET opens == {i \in 1..Len(t) :
                    t[i] = THINK_OPEN /\ \E j \in (i + 1)..Len(t) : t[j] = THINK_CLOSE}
    IN IF opens = {} THEN t
       ELSE LET i == Min(opens)
                j == Min({k \in (i + 1)..Len(t) : t[k] = THINK_CLOSE})
            IN SubSeq(t, 1, i - 1) \o StripThink(SubSeq(t, j + 1, Len(t)))

NoMatch == [found |-> FALSE, from |-> 0, to |-> 0]

\* re.search of the fenced pattern (fence, json, \s*, (\{.*?\}), \s*, fence) with
\* re.DOTALL: group 1 runs from the
\* brace after the leftmost opening fence to the first closing brace that is
\* followed by three backquotes (those of an opening fence count as well).
FencedSearch(t) ==
    LET closes(i) == {j \in (i + 2)..(Len(t) - 1) :
                        t[j] = RB /\ t[j + 1] \in {FENCE_CLOSE, FENCE_OPEN}}
        starts == {i \in 1..(Len(t) - 1) :
                        t[i] = FENCE_OPEN /\ t[i + 1] = LB /\ closes(i) # {}}
    IN IF starts = {} THEN NoMatch
       ELSE LET i == Min(starts)
            IN [found |-> TRUE, from |-> i + 1, to |-> Min(closes(i))]

\* re.search(r"(\{.*?\})", text, re.DOTALL): from the leftmost opening brace to
\* the first closing brace after it.
BareSearch(t) ==
    LET closes(i) == {j \in (i + 1)..Len(t) : t[j] = RB}
        starts == {i \in 1..Len(t) : t[i] = LB /\ closes(i) # {}}
    IN IF starts = {} THEN NoMatch
       ELSE LET i == Min(starts)
            IN [found |-> TRUE, from |-> i, to |-> Min(closes(i))]

\* match = re.search(fenced) or re.search(bare)
SearchJson(t) ==
    IF FencedSearch(t).found THEN FencedSearch(t) ELSE BareSearch(t)

\* The scan of json.JSONDecoder().raw_decode over s from position k inside an
\* object nested depth deep: the position of the brace that closes the outermost
\* object, or 0 when the text ends or holds something that is no JSON first.
RECURSIVE ScanObject(_, _, _)
ScanObject(s, k, depth) ==
    IF k > Len(s) THEN 0
    ELSE IF s[k] = LB THEN ScanObject(s, k + 1, depth + 1)
    ELSE IF s[k] = RB THEN (IF depth = 1 THEN k ELSE ScanObject(s, k + 1, depth - 1))
    ELSE IF s[k] = MEM THEN ScanObject(s, k + 1, depth)
    ELSE 0

\* raw_decode(s): decodes the object that starts s and ignores what follows it.
RawDecode(s) ==
    IF Len(s) = 0 \/ s[1] # LB THEN 0 ELSE ScanObject(s, 2, 1)

\* Strip, search, decode.  status is "ok", "no_object" (no match) or
\* "decode_error" (JSONDecodeError); from..to is the place of the decoded object in
\* the stripped text.
ExtractJson(raw) ==
    LET stripped == StripThink(raw)
        m == SearchJson(stripped)
        end == RawDecode(SubSeq(stripped, m.from, m.to))
    IN IF ~m.found THEN [status |-> "no_object", from |-> 0, to |-> 0]
       ELSE IF end = 0 THEN [status |-> "decode_error", from |-> m.from, to |-> m.to]
       ELSE [status |-> "ok", from |-> m.from, to |-> m.from + end - 1]

-----------------------------------------------------------------------------
(* The workflow graph (agent_graph.py lines 708-758) *)

Nodes == {"decide_action", "extract_general_user_facts",
          "extract_spotify_action_parameters", "extract_gmail_send_parameters",
          "extract_gmail_search_parameters", "extract_gmail_read_parameters",
          "query_user_facts", "spotify_action", "gmail_send_action",
          "gmail_search_action", "gmail_read_action", "generate_athena_response"}

END == "END"

\* app_runnable.invoke was left by an exception.
RAISED == "RAISED"

allowed_decisions == <<"extract_facts", "query_facts", "generate_response", "exit",
                       "spotify_playback_action", "gmail_send_email",
                       "gmail_search_emails", "gmail_read_email">>

AllowedSet == {allowed_decisions[i] : i \in 1..Len(allowed_decisions)}

\* A variant of the conditional edge in which exit is no case of its own and
\* falls to the default branch.
RouteAfterDecisionExitReplies(s) ==
    LET decision == s.decision_outcome
    IN IF decision = "extract_facts" THEN "extract_general_user_facts"
       ELSE IF decision = "query_facts" THEN "query_user_facts"
       ELSE IF decision = "spotify_playback_action" THEN "extract_spotify_action_parameters"
       ELSE IF decision = "gmail_send_email" THEN "extract_gmail_send_parameters"
       ELSE IF decision = "gmail_search_emails" THEN "extract_gmail_search_parameters"
       ELSE IF decision = "gmail_read_email" THEN "extract_gmail_read_parameters"
       ELSE "generate_athena_response"

\* A variant of the conditional edge that sends a direct reply through the
\* Spotify path.
RouteAfterDecisionPlaysOnReply(s) ==
    LET decision == s.decision_outcome
    IN IF decision = "extract_facts" THEN "extract_general_user_facts"
       ELSE IF decision = "query_facts" THEN "query_user_facts"
       ELSE IF decision = "gmail_send_email" THEN "extract_gmail_send_parameters"
       ELSE IF decision = "gmail_search_emails" THEN "extract_gmail_search_parameters"
       ELSE IF decision = "gmail_read_email" THEN "extract_gmail_read_parameters"
       ELSE IF decision = "exit" THEN END
       ELSE "extract_spotify_action_parameters"

\* The conditional edge out of decide_action.
route_after_decision(s) ==
    LET decision == s.decision_outcome
    IN IF decision = "extract_facts" THEN "extract_general_user_facts"
       ELSE IF decision = "query_facts" THEN "query_user_facts"
       ELSE IF decision = "spotify_playback_action" THEN "extract_spotify_action_parameters"
       ELSE IF decision = "gmail_send_email" THEN "extract_gmail_send_parameters"
       ELSE IF decision = "gmail_search_emails" THEN "extract_gmail_search_parameters"
       ELSE IF decision = "gmail_read_email" THEN "extract_gmail_read_parameters"
       ELSE IF decision = "exit" THEN END
       ELSE "generate_athena_response"

\* A variant of the fixed edges in which the Spotify extraction leads to the
\* action of another tool kind.
WorkflowEdgeCrossesKinds(node) ==
    IF node = "extract_spotify_action_parameters" THEN "gmail_send_action"
    ELSE IF node = "generate_athena_response" THEN END
    ELSE "generate_athena_response"

\* A variant of the fixed edges in which the composer leads back to the router.
WorkflowEdgeBackToRouter(node) ==
    IF node = "generate_athena_response" THEN "decide_action"
    ELSE IF node \in {"extract_general_user_facts", "query_user_facts", "spotify_action",
                      "gmail_send_action", "gmail_search_action", "gmail_read_action"}
    THEN "generate_athena_response"
    ELSE IF node = "extract_spotify_action_parameters" THEN "spotify_action"
    ELSE IF node = "extract_gmail_send_parameters" THEN "gmail_send_action"
    ELSE IF node = "extract_gmail_search_parameters" THEN "gmail_search_action"
    ELSE "gmail_read_action"

\* The fixed edges, workflow.add_edge(from, to).
WorkflowEdge(node) ==
    IF node = "extract_general_user_facts" THEN "generate_athena_response"
    ELSE IF node = "query_user_facts" THEN "generate_athena_response"
    ELSE IF node = "extract_spotify_action_parameters" THEN "spotify_action"
    ELSE IF node = "spotify_action" THEN "generate_athena_response"
    ELSE IF node = "extract_gmail_send_parameters" THEN "gmail_send_action"
    ELSE IF node = "gmail_send_action" THEN "generate_athena_response"
    ELSE IF node = "extract_gmail_search_parameters" THEN "gmail_search_action"
    ELSE IF node = "gmail_search_action" THEN "generate_athena_response"
    ELSE IF node = "extract_gmail_read_parameters" THEN "gmail_read_action"
    ELSE IF node = "gmail_read_action" THEN "generate_athena_response"
    ELSE END

\* A node returns the whole state, {**state, ...}; the graph writes every key of
\* the returned value to its channel.  chat_history is declared with the reducer
\* operator.add, so the returned list is added to the list the channel holds;
\* every other key replaces the value held.
ChannelWrite(cur, ret) ==
    [ret EXCEPT !.chat_history = cur.chat_history \o ret.chat_history]

\* One node has run: its return value is written and the edge leads on.
NodeDone(node, ret, next) ==
    /\ state' = ChannelWrite(state, ret)
    /\ trace' = Append(trace, node)
    /\ pc' = next

-----------------------------------------------------------------------------
(* The router: agent_decision_node (agent_graph.py lines 113-140) *)

\* Words of a routing completion; THINK_CLOSE separates them like any other
\* token, white space is what stands between two tokens.
OTHER_WORD == "other"
RouterWords == AllowedSet \cup {OTHER_WORD, "EXIT", "Query_Facts", "exit.", PROSE}
RouterTokens == RouterWords \cup {THINK_CLOSE}

\* str.lower() on the words of the model.
Lower(w) ==
    IF w = "EXIT" THEN "exit"
    ELSE IF w = "Query_Facts" THEN "query_facts"
    ELSE w

\* raw.split("</think>")[-1]: what follows the last closing marker (the whole
\* text when there is none).
AfterLastThink(t) ==
    LET marks == {i \in 1..Len(t) : t[i] = THINK_CLOSE}
    IN IF marks = {} THEN t
       ELSE SubSeq(t, (CHOOSE i \in marks : \A j \in marks : j <= i) + 1, Len(t))

\* A variant of line 130 that takes the first word of the whole completion.
ExtractDecisionKeywordOfWholeText(t) ==
    IF t = <<>> THEN [raised |-> TRUE, word |-> Null]
    ELSE [raised |-> FALSE, word |-> Lower(t[1])]

\* Line 130: [...].strip().split(maxsplit=1)[0].lower().  With no word left the
\* index [0] raises IndexError.
ExtractDecisionKeyword(t) ==
    LET rest == AfterLastThink(t)
    IN IF rest = <<>> THEN [raised |-> TRUE, word |-> Null]
       ELSE [raised |-> FALSE, word |-> Lower(rest[1])]

\* Python "a or b" on optional strings.
OrElse(a, b) == IF a # Null /\ a # "" THEN a ELSE b

\* A variant of the router that lets the history weigh on the decision.
AgentDecisionReadsHistory(s, configured, llm) ==
    LET kw == IF configured /\ llm.kind = "text" THEN ExtractDecisionKeyword(llm.text)
              ELSE [raised |-> TRUE, word |-> Null]
        accepted == ~kw.raised /\ kw.word \in AllowedSet /\ s.chat_history = <<>>
        decision == IF accepted THEN kw.word ELSE "generate_response"
    IN [s EXCEPT !.decision_outcome = decision,
                 !.tool_parameters = None,
                 !.tool_result = Null,
                 !.retrieved_facts_for_query =
                     IF decision # "query_facts" THEN Some(<<>>)
                     ELSE s.retrieved_facts_for_query,
                 !.error_message =
                     IF accepted THEN s.error_message ELSE "Core error in agent_decision_node"]

\* A variant of the router without the membership test of line 136.
AgentDecisionKeepsWord(s, configured, llm) ==
    LET kw == IF configured /\ llm.kind = "text" THEN ExtractDecisionKeyword(llm.text)
              ELSE [raised |-> TRUE, word |-> Null]
        decision == IF ~kw.raised THEN kw.word ELSE "generate_response"
    IN [s EXCEPT !.decision_outcome = decision,
                 !.tool_parameters = None,
                 !.tool_result = Null,
                 !.retrieved_facts_for_query =
                     IF decision # "query_facts" THEN Some(<<>>)
                     ELSE s.retrieved_facts_for_query,
                 !.error_message =
                     IF ~kw.raised THEN s.error_message ELSE "Core error in agent_decision_node"]

\* The value the node returns: llm is what routing_llm.invoke did,
\* [kind |-> "text", text |-> tokens] or [kind |-> "raise"] (the call, or the
\* profile lookup before it, raised).
AgentDecision(s, configured, llm) ==
    IF ~configured
    THEN [s EXCEPT !.decision_outcome = "generate_response",
                   !.error_message = "Routing LLM not configured."]
    ELSE
      LET kw == IF llm.kind = "text" THEN ExtractDecisionKeyword(llm.text)
                ELSE [raised |-> TRUE, word |-> Null]
          accepted == ~kw.raised /\ kw.word \in AllowedSet
          decision == IF accepted THEN kw.word ELSE "generate_response"
          node_error_message ==
              IF kw.raised THEN "Core error in agent_decision_node"
              ELSE IF accepted THEN Null
              ELSE "Routing LLM returned unexpected decision"
      IN [s EXCEPT !.decision_outcome = decision,
                   !.tool_parameters = None,
                   !.tool_result = Null,
                   !.retrieved_facts_for_query =
                       IF decision # "query_facts" THEN Some(<<>>)
                       ELSE s.retrieved_facts_for_query,
                   !.error_message = OrElse(node_error_message, s.error_message)]

RoutingOutcomes(texts) ==
    {[kind |-> "text", text |-> t] : t \in texts} \cup {[kind |-> "raise", text |-> <<>>]}

agent_decision_node(texts) ==
    /\ pc = "decide_action"
    /\ \E llm \in (IF cfg.routing_llm THEN RoutingOutcomes(texts)
                   ELSE {[kind |-> "not_configured", text |-> <<>>]}) :
          LET ret == AgentDecision(state, cfg.routing_llm, llm)
          IN /\ NodeDone("decide_action", ret, route_after_decision(ret))
             /\ obs' = [obs EXCEPT !.routing = llm]
    /\ UNCHANGED <<db, users, session, toolCalls, cfg, prompts, probe>>

-----------------------------------------------------------------------------
(* Completions of the extraction models *)

\* A completion is the text pre \o (the JSON text of value) \o post, or a call
\* that raised.  value is what the JSON text denotes once it is decoded whole.
Envelopes ==
    { [pre |-> <<>>, post |-> <<>>],
      [pre |-> <<FENCE_OPEN>>, post |-> <<FENCE_CLOSE>>],
      [pre |-> <<THINK_OPEN, PROSE, THINK_CLOSE, PROSE>>, post |-> <<PROSE>>] }

\* Texts that hold no object the decoder accepts.
NoObjectValue == [form |-> "absent"]
GarbageValue == [form |-> "garbage"]
UnclosedValue == [form |-> "unclosed"]
BrokenValues == {NoObjectValue, GarbageValue, UnclosedValue}

\* JSON values of the fields of an object.
Dict(m) == [isDict |-> TRUE, map |-> m]
NotDict == [isDict |-> FALSE, map |-> <<>>]

\* The facts a fact-extraction completion may list.
FactRex == [kind |-> "fact", entity_type |-> "pet", details |-> Dict([name |-> "Rex"])]
FactDentist == [kind |-> "fact", entity_type |-> "event",
                details |-> Dict([title |-> "Dentist", date_text |-> "next Tuesday"])]
FactBadDetails == [kind |-> "fact", entity_type |-> "pet", details |-> NotDict]
FactNoDetails == [kind |-> "no_details", entity_type |-> "pet", details |-> NotDict]
FactItems == {FactRex, FactDentist, FactBadDetails, FactNoDetails}

FactValues ==
    {[form |-> "object", entities |-> "list", items |-> l] : l \in SeqsUpTo(FactItems, MaxBatch)}
    \cup {[form |-> "object", entities |-> "missing", items |-> <<>>],
          [form |-> "object", entities |-> "not_list", items |-> <<>>]}

\* The JSON text of a listed fact: an object, its details an object within it.
RenderFact(f) ==
    IF f.kind = "fact" /\ f.details.isDict THEN <<LB, MEM, LB, MEM, RB, RB>>
    ELSE <<LB, MEM, RB>>

RECURSIVE RenderFacts(_)
RenderFacts(l) ==
    IF l = <<>> THEN <<>> ELSE RenderFact(Head(l)) \o RenderFacts(Tail(l))

\* The JSON text of a value: objects open and close with a brace.
Render(v) ==
    IF v.form = "absent" THEN <<PROSE>>
    ELSE IF v.form = "garbage" THEN <<LB, PROSE, RB>>
    ELSE IF v.form = "unclosed" THEN <<LB, MEM>>
    ELSE IF "items" \in DOMAIN v THEN <<LB, MEM>> \o RenderFacts(v.items) \o <<RB>>
    ELSE <<LB, MEM, RB>>

CompletionText(c) == c.pre \o Render(c.value) \o c.post

Completions(values) ==
    {[kind |-> "text", pre |-> e.pre, post |-> e.post, value |-> v] :
        e \in Envelopes, v \in values}
    \cup {[kind |-> "text", pre |-> <<>>, post |-> <<>>, value |-> v] : v \in BrokenValues}
    \cup {[kind |-> "raise", pre |-> <<>>, post |-> <<>>, value |-> NoObjectValue]}

\* The extractor applied to a completion: the status of ExtractJson, and the
\* object decoded when the status is "ok".
ExtractCompletion(c) == ExtractJson(CompletionText(c))

\* The decoded span is the whole JSON text of the value.
DecodedWhole(c) ==
    LET ex == ExtractCompletion(c)
        start == Len(StripThink(c.pre)) + 1
    IN ex.status = "ok" /\ ex.from = start /\ ex.to = start + Len(Render(c.value)) - 1

-----------------------------------------------------------------------------
(* The entity store: crud_entity.py *)

NextId(d) == IF d = <<>> THEN 1 ELSE d[Len(d)].id + 1

\* A variant of create_user_entity that writes over the newest row.
CreateUserEntityOverNewestRow(d, user_id, entity_type, details) ==
    IF ~details.isDict
    THEN [raised |-> TRUE, db |-> d, entity |-> <<>>]
    ELSE LET row == [id |-> NextId(d), user_id |-> user_id, entity_type |-> entity_type,
                     details_json |-> details]
         IN [raised |-> FALSE,
             db |-> IF d = <<>> THEN <<row>> ELSE [d EXCEPT ![Len(d)] = row],
             entity |-> row]

\* create_user_entity: raises ValueError unless details is a dictionary, else
\* adds a row and commits.
CreateUserEntity(d, user_id, entity_type, details) ==
    IF ~details.isDict
    THEN [raised |-> TRUE, db |-> d, entity |-> <<>>]
    ELSE LET row == [id |-> NextId(d), user_id |-> user_id, entity_type |-> entity_type,
                     details_json |-> details]
         IN [raised |-> FALSE, db |-> Append(d, row), entity |-> row]

\* get_user_entity_by_id: the place of the first row with the id, 0 if none.
EntityIndex(d, entity_id) ==
    IF \E i \in 1..Len(d) : d[i].id = entity_id
    THEN CHOOSE i \in 1..Len(d) :
            d[i].id = entity_id /\ \A j \in 1..(i - 1) : d[j].id # entity_id
    ELSE 0

\* update_user_entity_details: the entity is looked up first; a missing one
\* gives None; only then is a non-dictionary refused with ValueError; else the
\* details are overwritten and committed.
UpdateUserEntityDetails(d, entity_id, new_details) ==
    LET i == EntityIndex(d, entity_id)
    IN IF i = 0 THEN [raised |-> FALSE, db |-> d, found |-> FALSE]
       ELSE IF ~new_details.isDict THEN [raised |-> TRUE, db |-> d, found |-> TRUE]
       ELSE [raised |-> FALSE, db |-> [d EXCEPT ![i].details_json = new_details],
             found |-> TRUE]

\* A variant of the merge in which the current value of a key wins.
ShallowMergeKeepsCurrent(current_details, details_to_merge) ==
    LET current == IF current_details.isDict THEN current_details.map ELSE <<>>
    IN Dict([k \in DOMAIN current \cup DOMAIN details_to_merge.map |->
                IF k \in DOMAIN current THEN current[k] ELSE details_to_merge.map[k]])

\* Lines 73-78: current details that are no dictionary count as {}; a copy of
\* them is updated with the top-level keys of details_to_merge.
ShallowMerge(current_details, details_to_merge) ==
    LET current == IF current_details.isDict THEN current_details.map ELSE <<>>
    IN Dict([k \in DOMAIN current \cup DOMAIN details_to_merge.map |->
                IF k \in DOMAIN details_to_merge.map THEN details_to_merge.map[k]
                ELSE current[k]])

\* merge_user_entity_details run from its lookup to its commit.
MergeUserEntityDetails(d, entity_id, details_to_merge) ==
    LET i == EntityIndex(d, entity_id)
    IN IF i = 0 THEN [raised |-> FALSE, db |-> d, found |-> FALSE]
       ELSE IF ~details_to_merge.isDict THEN [raised |-> TRUE, db |-> d, found |-> TRUE]
       ELSE [raised |-> FALSE,
             db |-> [d EXCEPT ![i].details_json = ShallowMerge(@, details_to_merge)],
             found |-> TRUE]

\* delete_user_entity.
DeleteUserEntity(d, entity_id) ==
    IF EntityIndex(d, entity_id) = 0 THEN [db |-> d, deleted |-> FALSE]
    ELSE [db |-> SelectSeq(d, LAMBDA row : row.id # entity_id), deleted |-> TRUE]

-----------------------------------------------------------------------------
(* Fact extraction: extract_general_facts_node (agent_graph.py lines 142-183) *)

\* Lines 173-180: the loop over identified_entities.  An item that is no
\* dictionary with both keys is passed over; a create that raises leaves the
\* loop (the exception reaches the except clause of line 182).
RECURSIVE PersistFacts(_, _, _, _)
PersistFacts(d, user_id, items, processed) ==
    IF items = <<>> THEN [raised |-> FALSE, db |-> d, processed |-> processed]
    ELSE LET entity_data == Head(items)
         IN IF entity_data.kind # "fact"
            THEN PersistFacts(d, user_id, Tail(items), processed)
            ELSE LET c == CreateUserEntity(d, user_id, entity_data.entity_type,
                                           entity_data.details)
                 IN IF c.raised
                    THEN [raised |-> TRUE, db |-> d, processed |-> processed]
                    ELSE PersistFacts(c.db, user_id, Tail(items),
                            Append(processed,
                                   [id |-> c.entity.id,
                                    entity_type |-> c.entity.entity_type,
                                    details_json |-> c.entity.details_json]))

\* Lines 156-167: what the parsing block leaves in identified_entities and
\* node_error_message.
ParseFacts(c) ==
    LET ex == ExtractCompletion(c)
    IN IF ex.status = "no_object"
       THEN [items |-> <<>>,
             error |-> "No JSON object pattern found in LLM output for general fact extraction."]
       ELSE IF ex.status = "decode_error"
       THEN [items |-> <<>>, error |-> "Parse error"]
       ELSE IF ~DecodedWhole(c) \/ c.value.entities = "missing"
       THEN [items |-> <<>>, error |-> Null]
       ELSE IF c.value.entities = "not_list"
       THEN [items |-> <<>>, error |-> "LLM output for general entities was not a list."]
       ELSE [items |-> c.value.items, error |-> Null]

\* The value the node returns and the store it leaves.
ExtractGeneralFacts(s, d, configured, c) ==
    IF s.decision_outcome # "extract_facts"
    THEN [ret |-> [s EXCEPT !.extracted_entities_json = Some(<<>>)], db |-> d]
    ELSE IF ~configured
    THEN [ret |-> [s EXCEPT !.error_message = "Fact LLM not configured.",
                            !.extracted_entities_json = Some(<<>>)],
          db |-> d]
    ELSE IF c.kind = "raise"
    THEN [ret |-> [s EXCEPT !.extracted_entities_json = Some(<<>>),
                            !.error_message = "Core error in extract_general_facts_node"],
          db |-> d]
    ELSE
      LET parsed == ParseFacts(c)
          done == PersistFacts(d, s.user_id, parsed.items, <<>>)
          node_error_message ==
              IF done.raised THEN "Core error in extract_general_facts_node"
              ELSE parsed.error
      IN [ret |-> [s EXCEPT !.extracted_entities_json = Some(done.processed),
                            !.error_message = OrElse(node_error_message, s.error_message)],
          db |-> done.db]

\* How the extraction of this turn ended, for the record kept in obs.
ExtractionStatus(configured, c, validates) ==
    IF ~configured THEN "not_configured"
    ELSE IF c.kind = "raise" THEN "llm_raise"
    ELSE IF ExtractCompletion(c).status # "ok" THEN ExtractCompletion(c).status
    ELSE IF ~validates THEN "validation_error"
    ELSE "ok"

FactsValidate(c) == ~DecodedWhole(c) \/ c.value.entities # "not_list"

extract_general_facts_node ==
    /\ pc = "extract_general_user_facts"
    /\ \E c \in (IF cfg.fact_extraction_llm THEN Completions(FactValues)
                 ELSE {[kind |-> "not_configured"]}) :
          LET r == ExtractGeneralFacts(state, db, cfg.fact_extraction_llm, c)
          IN /\ NodeDone("extract_general_user_facts", r.ret,
                         WorkflowEdge("extract_general_user_facts"))
             /\ db' = r.db
             /\ obs' = [obs EXCEPT !.batch = IF cfg.fact_extraction_llm /\ c.kind = "text"
                                             THEN ParseFacts(c).items ELSE <<>>,
                                   !.extraction =
                                       ExtractionStatus(cfg.fact_extraction_llm, c,
                                           cfg.fact_extraction_llm /\ c.kind = "text"
                                               /\ FactsValidate(c))]
    /\ UNCHANGED <<users, session, toolCalls, cfg, prompts, probe>>

-----------------------------------------------------------------------------
(* Tool parameter extraction (agent_graph.py lines 46-70, 185-290) *)

\* The objects a parameter completion may hold.  A field that is absent or null
\* is Null; typed is FALSE when some field has a type the schema refuses.
SpotifyValue(action, song_title, artist_name) ==
    [form |-> "object", typed |-> TRUE, action |-> action,
     song_title |-> song_title, artist_name |-> artist_name]

SpotifyValues ==
    { SpotifyValue("start", "song", Null), SpotifyValue("start", "song", "artist"),
      SpotifyValue("start", Null, Null), SpotifyValue("pause", Null, Null),
      SpotifyValue("skip", Null, Null), SpotifyValue("get", Null, Null),
      SpotifyValue("dance", Null, Null), SpotifyValue("", Null, Null),
      SpotifyValue(Null, "song", Null),
      [SpotifyValue("pause", Null, Null) EXCEPT !.typed = FALSE] }

\* to is None (absent or null) or Some(list of strings).
GmailSendValue(to, subject, body) ==
    [form |-> "object", typed |-> TRUE, to |-> to, subject |-> subject, body |-> body]

GmailSendValues ==
    {GmailSendValue(to, subject, body) :
        to \in {None, Some(<<>>), Some(<<"">>), Some(<<"ann@example.org">>)},
        subject \in {Null, "Hello"}, body \in {Null, "See you"}}
    \cup {[GmailSendValue(Some(<<"ann@example.org">>), "Hello", "See you")
             EXCEPT !.typed = FALSE]}

GmailSearchValues ==
    {[form |-> "object", typed |-> t, query |-> q] :
        t \in BOOLEAN, q \in {Null, "", "from:doctor"}}

GmailReadValues ==
    {[form |-> "object", typed |-> t, message_id |-> m] :
        t \in BOOLEAN, m \in {Null, "msg-1"}}

\* pydantic_model.model_validate on the decoded object.
SpotifyActionParameters(v) == v.typed /\ v.action # Null
GmailSendParameters(v) == v.typed /\ ~v.to.isNone
GmailSearchParameters(v) == v.typed /\ v.query # Null
GmailReadParameters(v) == v.typed

Validates(kind, v) ==
    IF kind = "spotify" THEN SpotifyActionParameters(v)
    ELSE IF kind = "gmail_send" THEN GmailSendParameters(v)
    ELSE IF kind = "gmail_search" THEN GmailSearchParameters(v)
    ELSE GmailReadParameters(v)

\* validated_params.model_dump(exclude_none=True): the fields of the schema.
ModelDump(kind, v) ==
    IF kind = "spotify"
    THEN [action |-> v.action, song_title |-> v.song_title, artist_name |-> v.artist_name]
    ELSE IF kind = "gmail_send" THEN [to |-> v.to, subject |-> v.subject, body |-> v.body]
    ELSE IF kind = "gmail_search" THEN [query |-> v.query]
    ELSE [message_id |-> v.message_id]

\* An object that is not the one rendered (never decoded from the envelopes
\* above) has none of the fields.
EmptyObject(kind) ==
    IF kind = "spotify" THEN SpotifyValue(Null, Null, Null)
    ELSE IF kind = "gmail_send" THEN GmailSendValue(None, Null, Null)
    ELSE IF kind = "gmail_search" THEN [form |-> "object", typed |-> TRUE, query |-> Null]
    ELSE [form |-> "object", typed |-> TRUE, message_id |-> Null]

DecodedValue(kind, c) == IF DecodedWhole(c) THEN c.value ELSE EmptyObject(kind)

\* A variant of the parameter extraction without model_validate (line 212).
ExtractParametersIgnoresValidation(kind, configured, c) ==
    IF configured /\ c.kind = "text" /\ ExtractCompletion(c).status = "ok"
    THEN [params |-> Some(ModelDump(kind, DecodedValue(kind, c))), error |-> Null]
    ELSE [params |-> None, error |-> "Failed to parse/validate JSON params"]

\* A variant of the parameter extraction without the test of line 191: the
\* call on the absent model raises inside the try block.
ExtractParametersWithoutConfigTest(kind, configured, c) ==
    IF ~configured \/ c.kind = "raise" THEN [params |-> None, error |-> "Core error"]
    ELSE IF ExtractCompletion(c).status = "no_object"
    THEN [params |-> None, error |-> "No JSON object found in LLM output."]
    ELSE IF ExtractCompletion(c).status = "decode_error"
            \/ ~Validates(kind, DecodedValue(kind, c))
    THEN [params |-> None, error |-> "Failed to parse/validate JSON params"]
    ELSE [params |-> Some(ModelDump(kind, DecodedValue(kind, c))), error |-> Null]

\* _extract_parameters_with_llm: the pair (params, error) it returns.
ExtractParametersWithLlm(kind, configured, c) ==
    IF ~configured
    THEN [params |-> None, error |-> "Tool parameter extraction LLM not configured."]
    ELSE IF c.kind = "raise" THEN [params |-> None, error |-> "Core error"]
    ELSE IF ExtractCompletion(c).status = "no_object"
    THEN [params |-> None, error |-> "No JSON object found in LLM output."]
    ELSE IF ExtractCompletion(c).status = "decode_error"
            \/ ~Validates(kind, DecodedValue(kind, c))
    THEN [params |-> None, error |-> "Failed to parse/validate JSON params"]
    ELSE [params |-> Some(ModelDump(kind, DecodedValue(kind, c))), error |-> Null]

\* A variant of the extraction nodes that does not record the error of the
\* extraction.
ExtractParametersNodeDropsError(s, kind, configured, c) ==
    [s EXCEPT !.tool_parameters = ExtractParametersWithLlm(kind, configured, c).params]

\* The extraction nodes return {**state, tool_parameters: params,
\* error_message: err or state.get("error_message")}.  The Spotify node holds its
\* own copy of the same steps (lines 222-252).
ExtractParametersNode(s, kind, configured, c) ==
    LET r == ExtractParametersWithLlm(kind, configured, c)
    IN [s EXCEPT !.tool_parameters = r.params,
                 !.error_message = OrElse(r.error, s.error_message)]

ParamCompletions(kind) ==
    IF ~cfg.tool_param_extraction_llm THEN {[kind |-> "not_configured"]}
    ELSE IF kind = "spotify" THEN Completions(SpotifyValues)
    ELSE IF kind = "gmail_send" THEN Completions(GmailSendValues)
    ELSE IF kind = "gmail_search" THEN Completions(GmailSearchValues)
    ELSE Completions(GmailReadValues)

\* An extraction node run on one of the given completions.
ExtractParametersStepFrom(node, kind, completions) ==
    /\ pc = node
    /\ \E c \in completions :
          /\ NodeDone(node,
                      ExtractParametersNode(state, kind, cfg.tool_param_extraction_llm, c),
                      WorkflowEdge(node))
          /\ obs' = [obs EXCEPT !.extraction =
                                    ExtractionStatus(cfg.tool_param_extraction_llm, c,
                                        cfg.tool_param_extraction_llm /\ c.kind = "text"
                                            /\ Validates(kind, DecodedValue(kind, c)))]
    /\ UNCHANGED <<db, users, session, toolCalls, cfg, prompts, probe>>

ExtractParametersStep(node, kind) ==
    ExtractParametersStepFrom(node, kind, ParamCompletions(kind))

extract_spotify_action_parameters_node ==
    ExtractParametersStep("extract_spotify_action_parameters", "spotify")

extract_gmail_send_parameters_node ==
    ExtractParametersStep("extract_gmail_send_parameters", "gmail_send")

extract_gmail_search_parameters_node ==
    ExtractParametersStep("extract_gmail_search_parameters", "gmail_search")

\* The read node adds up to five remembered search results to the prompt
\* (lines 267-279); the prompt changes what the model answers, not the steps.
extract_gmail_read_parameters_node ==
    ExtractParametersStep("extract_gmail_read_parameters", "gmail_read")

-----------------------------------------------------------------------------
(* Tool actions (agent_graph.py lines 382-627) *)

\* A capability call recorded in toolCalls.
Call(service, op, args) == [service |-> service, op |-> op, args |-> args]

Truthy(x) == x # Null /\ x # ""

\* The tool behind a capability raised instead of returning.
ToolRaised == "raise"

\* A variant of InvokeTool without the except clause.
InvokeToolWithoutExcept(result) == result

\* _invoke_tool_async of both services: an exception raised by the tool is
\* caught and returned as an error dict.
InvokeTool(result) == IF result = ToolRaised THEN "error_dict" ELSE result

\* What invoke_tool returns for a tool that returns one of results or raises.
InvokeToolResults(results) == {InvokeTool(t) : t \in results \cup {ToolRaised}}

\* search_spotify and get_now_playing give None for an error result
\* (spotify_service.py lines 135-137 and 143-145).
NoneForError(result) == IF result = "error_dict" THEN "none" ELSE result

\* What the SpotifyService methods may return.
SearchOutcomes ==
    {NoneForError(t) : t \in InvokeToolResults({"none", "no_tracks", "track",
                                                "track_without_id", "no_tracks_key"})}
StatusOutcomes == InvokeToolResults({"none", "expected_text", "other_text", "error_dict"})
NowPlayingOutcomes ==
    {NoneForError(t) : t \in InvokeToolResults({"none", "track", "without_name"})}
FoundTrackId == "track-1"

\* Lines 429, 443, 453: a status counts as success when it is the expected
\* text or None.
StatusIsSuccess(status) == status \in {"expected_text", "none"}

\* A variant of TrackToPlay that takes the first track whether or not it has
\* an id.
TrackToPlayWithoutId(search_results) ==
    IF search_results \in {"track", "track_without_id"} THEN Some(FoundTrackId) ELSE None

\* Lines 412-421: the track to play, when the search result is a dict whose
\* tracks list starts with a track that has an id.
TrackToPlay(search_results) ==
    IF search_results = "track" THEN Some(FoundTrackId) ELSE None

\* spotify_action_node: the value returned and the calls made.  out gives what
\* each capability returns if it is called.
SpotifyAction(s, available, out) ==
    LET tool_params == s.tool_parameters
        prior == s.error_message
        done(result, error, calls) ==
            [ret |-> [s EXCEPT !.tool_result = result, !.error_message = error],
             calls |-> calls]
    IN IF ~available
       THEN done("Spotify service is not available.", "Spotify service not initialized.", <<>>)
       ELSE IF tool_params.isNone \/ ~Truthy(tool_params.v.action)
       THEN done("I couldn't understand what you wanted to do with Spotify.",
                 OrElse(prior, "Spotify action parameters (especially 'action') not extracted."),
                 <<>>)
       ELSE
         LET action == tool_params.v.action
             song_title == tool_params.v.song_title
             artist_name == tool_params.v.artist_name
         IN IF action = "start"
            THEN IF ~Truthy(song_title)
                 THEN done("I need a song title, artist, or mood/genre to start playing.",
                           "Missing song title for 'start' action after parameter extraction.",
                           <<>>)
                 ELSE
                   LET search_query == [song_title |-> song_title,
                                        artist |-> IF Truthy(artist_name) THEN artist_name
                                                   ELSE Null]
                       search == Call("spotify", "search_spotify",
                                      [query |-> search_query, item_type |-> "track",
                                       limit |-> 1])
                       track_uri_to_play == TrackToPlay(out.search)
                       play == Call("spotify", "play_music",
                                    [spotify_uri |-> track_uri_to_play.v])
                   IN IF ~track_uri_to_play.isNone
                      THEN IF StatusIsSuccess(out.status)
                           THEN done("Now playing ... on Spotify.", Null, <<search, play>>)
                           ELSE done("I found the track, but couldn't play it. Spotify said: ...",
                                     "I found the track, but couldn't play it. Spotify said: ...",
                                     <<search, play>>)
                      ELSE IF ~Truthy(prior)
                      THEN done("Sorry, I couldn't find it on Spotify to play.",
                                "Song not found for playback.", <<search>>)
                      ELSE done("Could not understand the Spotify request.", prior, <<search>>)
            ELSE IF action = "pause"
            THEN LET call == Call("spotify", "pause_playback", <<>>)
                 IN IF StatusIsSuccess(out.status)
                    THEN done("Playback paused on Spotify.", Null, <<call>>)
                    ELSE done("Could not pause playback. Spotify said: ...",
                              "Could not pause playback. Spotify said: ...", <<call>>)
            ELSE IF action = "skip"
            THEN LET call == Call("spotify", "skip_track", <<>>)
                 IN IF StatusIsSuccess(out.status)
                    THEN done("Skipped to the next track on Spotify.", Null, <<call>>)
                    ELSE done("Could not skip track. Spotify said: ...",
                              "Could not skip track. Spotify said: ...", <<call>>)
            ELSE IF action = "get"
            THEN LET call == Call("spotify", "get_now_playing", <<>>)
                 IN IF out.now_playing = "track"
                    THEN done("Currently playing ...", Null, <<call>>)
                    ELSE done("Could not get current playing information from Spotify.",
                              "Error getting current track", <<call>>)
            ELSE done("I'm not sure how to perform the Spotify action.",
                      "Unknown Spotify action", <<>>)

SpotifyOutcomes ==
    {[search |-> a, status |-> b, now_playing |-> c] :
        a \in SearchOutcomes, b \in StatusOutcomes, c \in NowPlayingOutcomes}

\* What the GmailService methods may return.
SendOutcomes == InvokeToolResults({"sent", "error_dict", "none"})
EmailSearchOutcomes ==
    InvokeToolResults({"text_with_ids", "text_without_ids", "empty_text",
                       "list", "empty_list", "error_dict", "none"})
ReadOutcomes == InvokeToolResults({"dict", "text", "error_dict", "none"})

EmailSummary(i) == [id |-> i]
FoundEmails == <<EmailSummary("msg-1"), EmailSummary("msg-2")>>

\* Line 272: last_search_results[:5].
SearchContextLimit == 5

\* A list that the service returns already structured is taken as it is (line
\* 557), however long: here one summary more than a read turn offers.
ListedEmails == [i \in 1..(SearchContextLimit + 1) |-> EmailSummary(<<"msg", i>>)]

\* Lines 538-558: the summaries parsed from what search_emails returned.
ParsedSummaries(out) ==
    IF out = "text_with_ids" THEN FoundEmails
    ELSE IF out = "list" THEN ListedEmails
    ELSE <<>>

\* A variant of the context of the read prompt that offers every remembered
\* result.
EmailSearchContextOffersAll(last_search_results) ==
    IF last_search_results.isNone THEN <<>> ELSE last_search_results.v

\* Lines 269-279: the remembered results offered to the parameter model of a
\* read turn as context, to be referred to by position.
EmailSearchContext(last_search_results) ==
    IF last_search_results.isNone THEN <<>>
    ELSE SubSeq(last_search_results.v, 1,
                IF Len(last_search_results.v) < SearchContextLimit
                THEN Len(last_search_results.v) ELSE SearchContextLimit)

\* A variant of GmailSendAction that looks at the subject before the recipient.
GmailSendActionAsksSubjectFirst(s, available, out) ==
    LET params == s.tool_parameters
        done(result, error, calls) ==
            [ret |-> [s EXCEPT !.tool_result = result, !.error_message = error],
             calls |-> calls]
    IN IF ~available
       THEN done("Gmail service unavailable.", "Gmail service not initialized.", <<>>)
       ELSE IF params.isNone
       THEN done("I'm sorry, I couldn't quite understand the details for the email.",
                 OrElse(s.error_message, "Could not understand email details."), <<>>)
       ELSE IF ~Truthy(params.v.subject)
       THEN done("Okay, I can send an email to the recipient. What should the subject line be?",
                 "Missing subject.", <<>>)
       ELSE IF params.v.to.isNone \/ params.v.to.v = <<>> \/ ~Truthy(params.v.to.v[1])
       THEN done("I'm ready to send an email, but I need to know who it's for. Who should I send it to?",
                 "Missing recipient.", <<>>)
       ELSE IF ~Truthy(params.v.body)
       THEN done("Okay, I'm sending an email. What would you like the body of the email to say?",
                 "Missing email body.", <<>>)
       ELSE done(IF out = "sent" THEN "Email has been sent successfully."
                 ELSE "Sorry, I couldn't send the email. The service said: ...",
                 IF out = "sent" THEN Null
                 ELSE "Sorry, I couldn't send the email. The service said: ...",
                 << Call("gmail", "send_email",
                         [to |-> params.v.to.v, subject |-> params.v.subject,
                          body |-> params.v.body]) >>)

\* gmail_send_action_node
GmailSendAction(s, available, out) ==
    LET params == s.tool_parameters
        prior == s.error_message
        done(result, error, calls) ==
            [ret |-> [s EXCEPT !.tool_result = result, !.error_message = error],
             calls |-> calls]
    IN IF ~available
       THEN done("Gmail service unavailable.", "Gmail service not initialized.", <<>>)
       ELSE IF params.isNone
       THEN done("I'm sorry, I couldn't quite understand the details for the email.",
                 OrElse(prior, "Could not understand email details."), <<>>)
       ELSE
         LET recipient == params.v.to
             subject == params.v.subject
             body == params.v.body
         IN IF recipient.isNone \/ recipient.v = <<>> \/ ~Truthy(recipient.v[1])
            THEN done("I'm ready to send an email, but I need to know who it's for. Who should I send it to?",
                      "Missing recipient.", <<>>)
            ELSE IF ~Truthy(subject)
            THEN done("Okay, I can send an email to the recipient. What should the subject line be?",
                      "Missing subject.", <<>>)
            ELSE IF ~Truthy(body)
            THEN done("Okay, I'm sending an email. What would you like the body of the email to say?",
                      "Missing email body.", <<>>)
            ELSE
              LET call == Call("gmail", "send_email",
                               [to |-> recipient.v, subject |-> subject, body |-> body])
              IN IF out = "sent"
                 THEN done("Email has been sent successfully.", Null, <<call>>)
                 ELSE done("Sorry, I couldn't send the email. The service said: ...",
                           "Sorry, I couldn't send the email. The service said: ...",
                           <<call>>)

\* gmail_search_action_node
GmailSearchAction(s, available, out) ==
    LET params == s.tool_parameters
        prior == s.error_message
        done(result, error, found, calls) ==
            [ret |-> [s EXCEPT !.tool_result = result, !.error_message = error,
                               !.last_email_search_results = found],
             calls |-> calls]
    IN IF ~available
       THEN done("Gmail service unavailable.", "Gmail service not initialized.", None, <<>>)
       ELSE IF params.isNone \/ params.v.query = Null
       THEN done("I need a search query to find emails.",
                 OrElse(prior, "Missing search query for Gmail."), Some(<<>>), <<>>)
       ELSE
         LET call == Call("gmail", "search_emails",
                          [query |-> params.v.query, max_results |-> 5])
         IN IF out \in {"text_with_ids", "list"}
            THEN done("I found some email(s). Here are the first few: ...", Null,
                      Some(ParsedSummaries(out)), <<call>>)
            ELSE IF out = "text_without_ids"
            THEN done("I found some email information, but had trouble summarizing it.",
                      "Could not parse email summary string from MCP.", Some(<<>>), <<call>>)
            ELSE IF out = "empty_list"
            THEN done("I couldn't find any emails matching your search.", prior,
                      Some(<<>>), <<call>>)
            ELSE IF out = "error_dict"
            THEN done("Sorry, I couldn't search your emails. The service said: ...",
                      "Sorry, I couldn't search your emails. The service said: ...",
                      Some(<<>>), <<call>>)
            ELSE IF out = "empty_text"
            THEN done("I couldn't find any emails matching your search.", Null,
                      Some(<<>>), <<call>>)
            ELSE done("Could not understand search query.", prior, Some(<<>>), <<call>>)

\* gmail_read_action_node
GmailReadAction(s, available, out) ==
    LET params == s.tool_parameters
        prior == s.error_message
        done(result, error, calls) ==
            [ret |-> [s EXCEPT !.tool_result = result, !.error_message = error],
             calls |-> calls]
    IN IF ~available
       THEN done("Gmail service unavailable.", "Gmail service not initialized.", <<>>)
       ELSE IF ~params.isNone /\ params.v.message_id # Null /\ Truthy(params.v.message_id)
       THEN LET call == Call("gmail", "read_email", [messageId |-> params.v.message_id])
            IN IF out = "dict"
               THEN done("Okay, here's the email ...", prior, <<call>>)
               ELSE IF out = "text"
               THEN done("Received email content, but in an unexpected format: ...",
                         "Unexpected format for read email content.", <<call>>)
               ELSE done("Sorry, I couldn't read that email. Gmail service said: ...",
                         "Sorry, I couldn't read that email. Gmail service said: ...",
                         <<call>>)
       ELSE IF ~Truthy(prior)
       THEN done("I'm not sure which email you'd like me to read. Could you specify its ID or refer to it from a recent search?",
                 "No message ID was determined to read the email.", <<>>)
       ELSE done("Could not understand which email to read.", prior, <<>>)

ToolActionStep(node, r) ==
    /\ NodeDone(node, r.ret, WorkflowEdge(node))
    /\ toolCalls' = toolCalls \o r.calls
    /\ UNCHANGED <<db, users, session, cfg, obs, prompts, probe>>

\* The action nodes have no try block: an exception that leaves a capability
\* leaves the node and app_runnable.invoke.
ToolActionRaises(node, calls) ==
    /\ pc' = RAISED
    /\ trace' = Append(trace, node)
    /\ toolCalls' = toolCalls \o calls
    /\ UNCHANGED <<state, db, users, session, cfg, obs, prompts, probe>>

\* The capability called last raised.
SpotifyCallRaised(calls, out) ==
    /\ calls # <<>>
    /\ LET op == calls[Len(calls)].op
       IN \/ op = "search_spotify" /\ out.search = ToolRaised
          \/ op \in {"play_music", "pause_playback", "skip_track"} /\ out.status = ToolRaised
          \/ op = "get_now_playing" /\ out.now_playing = ToolRaised

ToolActionStepOrRaise(node, r, raised) ==
    IF raised THEN ToolActionRaises(node, r.calls) ELSE ToolActionStep(node, r)

spotify_action_node ==
    /\ pc = "spotify_action"
    /\ \E out \in SpotifyOutcomes :
          LET r == SpotifyAction(state, cfg.spotify_service, out)
          IN ToolActionStepOrRaise("spotify_action", r, SpotifyCallRaised(r.calls, out))

gmail_send_action_node ==
    /\ pc = "gmail_send_action"
    /\ \E out \in SendOutcomes :
          LET r == GmailSendAction(state, cfg.gmail_service, out)
          IN ToolActionStepOrRaise("gmail_send_action", r,
                                   r.calls # <<>> /\ out = ToolRaised)

gmail_search_action_node ==
    /\ pc = "gmail_search_action"
    /\ \E out \in EmailSearchOutcomes :
          LET r == GmailSearchAction(state, cfg.gmail_service, out)
          IN ToolActionStepOrRaise("gmail_search_action", r,
                                   r.calls # <<>> /\ out = ToolRaised)

gmail_read_action_node ==
    /\ pc = "gmail_read_action"
    /\ \E out \in ReadOutcomes :
          LET r == GmailReadAction(state, cfg.gmail_service, out)
          IN ToolActionStepOrRaise("gmail_read_action", r,
                                   r.calls # <<>> /\ out = ToolRaised)

-----------------------------------------------------------------------------
(* Fact query: query_facts_node (agent_graph.py lines 293-380) *)

QueryValue(entity_type, identifier, attributes) ==
    [form |-> "object", typed |-> TRUE, query_entity_type |-> entity_type,
     query_identifier |-> identifier, query_attributes |-> attributes]

QueryValues ==
    { QueryValue("pet", "Milo", Some(<<"breed">>)), QueryValue("pet", Null, None),
      QueryValue("pet", "REX", None), QueryValue("pet", "Milo", Some(<<"color">>)),
      QueryValue("event", "Tuesday", None), QueryValue("event", "dentist", Some(<<>>)),
      QueryValue("personal_info", Null, Some(<<"location">>)),
      QueryValue("user_hobby", Null, None), QueryValue("user_job", Null, None),
      QueryValue("car", Null, None), QueryValue(Null, Null, None),
      [QueryValue("pet", Null, None) EXCEPT !.typed = FALSE] }

\* ParsedQuery.model_validate: every field is optional.
ParsedQuery(v) == v.typed

\* str.lower() on the strings of the model.
LowerStr(x) ==
    IF x = "Milo" THEN "milo"
    ELSE IF x \in {"Rex", "REX"} THEN "rex"
    ELSE IF x \in {"Tuesday"} THEN "tuesday"
    ELSE IF x \in {"Dentist", "DENTIST"} THEN "dentist"
    ELSE IF x \in {"Buy milk", "BUY MILK"} THEN "buy milk"
    ELSE IF x = "next Tuesday" THEN "next tuesday"
    ELSE x

\* hay.find(needle) != -1 on lower-case strings of the model.
Contains(hay, needle) ==
    \/ needle = "" \/ needle = hay
    \/ <<hay, needle>> \in {<<"next tuesday", "tuesday">>, <<"next tuesday", "next">>}

\* details.get(key, "")
GetOr(map, key, default) == IF key \in DOMAIN map THEN map[key] ELSE default

\* crud_entity.get_user_entities(db, user_id, entity_type): the rows of the user,
\* of that type when one is given, in id order.
SelectRows(d, user_id, entity_type) ==
    SelectSeq(d, LAMBDA row :
        row.user_id = user_id /\ (~Truthy(entity_type) \/ row.entity_type = entity_type))

\* The default of the limit parameter of get_user_entities.
EntityQueryLimit == 100

\* A variant of get_user_entities without the filter on the owner.
get_entities_of_any_user(d, user_id, entity_type) ==
    SelectSeq(d, LAMBDA row : ~Truthy(entity_type) \/ row.entity_type = entity_type)

\* query.offset(skip).limit(limit).all() with skip = 0
get_user_entities(d, user_id, entity_type) ==
    LET rows == SelectRows(d, user_id, entity_type)
    IN IF Len(rows) <= EntityQueryLimit THEN rows ELSE SubSeq(rows, 1, EntityQueryLimit)

\* Lines 362-367
EntityMatchesIdentifier(details, query_entity_type, query_identifier) ==
    IF ~Truthy(query_identifier) THEN TRUE
    ELSE LET id_lower == LowerStr(query_identifier)
         IN \/ LowerStr(GetOr(details, "name", "")) = id_lower
            \/ LowerStr(GetOr(details, "description", "")) = id_lower
            \/ LowerStr(GetOr(details, "title", "")) = id_lower
            \/ /\ query_entity_type = "event"
               /\ Contains(LowerStr(GetOr(details, "date_text", "")), id_lower)

SeqToSet(q) == {q[i] : i \in 1..Len(q)}

\* A variant of FactOfEntity that ignores the attributes asked for.
FactOfEntityKeepsWholeDetails(entity, q) ==
    IF ~entity.details_json.isDict THEN <<>>
    ELSE IF ~EntityMatchesIdentifier(entity.details_json.map, q.query_entity_type,
                                     q.query_identifier)
    THEN <<>>
    ELSE IF DOMAIN entity.details_json.map = {} THEN <<>>
    ELSE << [entity_type |-> entity.entity_type, details |-> entity.details_json.map] >>

\* Lines 368-375: the fact an entity contributes, if any.
FactOfEntity(entity, q) ==
    LET details == entity.details_json.map
        wanted == IF q.query_attributes.isNone THEN <<>> ELSE q.query_attributes.v
        specific_details == [a \in SeqToSet(wanted) \cap DOMAIN details |-> details[a]]
        kept == IF wanted # <<>> THEN specific_details ELSE details
    IN IF ~entity.details_json.isDict THEN <<>>
       ELSE IF ~EntityMatchesIdentifier(details, q.query_entity_type, q.query_identifier)
       THEN <<>>
       ELSE IF DOMAIN kept = {} THEN <<>>
       ELSE << [entity_type |-> entity.entity_type, details |-> kept] >>

\* Lines 358-375: the loop over the rows read.
FactsOfEntities(rows, q) ==
    LET contributing == SelectSeq(rows, LAMBDA entity : FactOfEntity(entity, q) # <<>>)
    IN [i \in 1..Len(contributing) |-> FactOfEntity(contributing[i], q)[1]]

ProfileTypes == {"personal_info", "user_location", "user_hobby", "user_job",
                 "user_preference_general"}

\* Lines 350-355: facts read from the users row.
FactsOfProfile(profile, q) ==
    LET no_attributes == q.query_attributes.isNone \/ q.query_attributes.v = <<>>
        t == q.query_entity_type
    IN (IF /\ t \in {"personal_info", "user_location"}
           /\ (no_attributes \/ "location" \in SeqToSet(q.query_attributes.v))
           /\ Truthy(profile.location)
        THEN << [type |-> "location", detail |-> profile.location] >> ELSE <<>>)
       \o (IF t = "user_hobby" /\ no_attributes /\ profile.hobbies_json # <<>>
           THEN << [type |-> "hobbies", details |-> profile.hobbies_json] >> ELSE <<>>)
       \o (IF t = "user_job" /\ no_attributes /\ profile.job_json # <<>>
           THEN << [type |-> "jobs", details |-> profile.job_json] >> ELSE <<>>)

\* A variant of ResolveQuery that looks profile types up in the entity store too.
ResolveQueryReadsStoreForProfile(d, u, user_id, q) ==
    IF Truthy(q.query_entity_type)
    THEN (IF q.query_entity_type \in ProfileTypes /\ user_id \in DOMAIN u
          THEN FactsOfProfile(u[user_id], q) ELSE <<>>)
         \o FactsOfEntities(get_user_entities(d, user_id, q.query_entity_type), q)
    ELSE <<>>

\* Lines 346-376: the Fact Query Resolver.
ResolveQuery(d, u, user_id, q) ==
    IF q.query_entity_type \in ProfileTypes
    THEN (IF user_id \in DOMAIN u THEN FactsOfProfile(u[user_id], q) ELSE <<>>)
    ELSE IF Truthy(q.query_entity_type)
    THEN FactsOfEntities(get_user_entities(d, user_id, q.query_entity_type), q)
    ELSE <<>>

\* A variant of ResolveQueryOnStore that removes the rows it has read.
ResolveQueryConsumesRows(d, u, user_id, q) ==
    [facts |-> ResolveQuery(d, u, user_id, q),
     db |-> SelectSeq(d, LAMBDA row :
                ~(row.user_id = user_id /\ row.entity_type = q.query_entity_type)),
     users |-> u]

\* The resolver and the tables it leaves: it reads through get_user and
\* get_user_entities and closes its session without a commit.
ResolveQueryOnStore(d, u, user_id, q) ==
    [facts |-> ResolveQuery(d, u, user_id, q), db |-> d, users |-> u]

EmptyQuery == QueryValue(Null, Null, None)

\* A variant of ReturnResolved that treats an empty result as a failure.
ReturnResolvedFailsOnNoMatch(s, r) ==
    [ret |-> IF r.facts = <<>>
             THEN [s EXCEPT !.retrieved_facts_for_query = None,
                            !.error_message = "No facts found for the query."]
             ELSE [s EXCEPT !.retrieved_facts_for_query = Some(r.facts)],
     db |-> r.db, users |-> r.users]

\* Line 379 after a resolved query: no error of the node, the facts as found.
ReturnResolved(s, r) ==
    [ret |-> [s EXCEPT !.retrieved_facts_for_query = Some(r.facts),
                       !.error_message = OrElse(Null, s.error_message)],
     db |-> r.db, users |-> r.users]

\* The value the node returns and the tables it leaves.
QueryFacts(s, d, u, configured, c) ==
    LET done(facts, error) ==
            [ret |-> [s EXCEPT !.retrieved_facts_for_query = Some(facts),
                               !.error_message = OrElse(error, s.error_message)],
             db |-> d, users |-> u]
    IN IF ~configured
       THEN [ret |-> [s EXCEPT !.retrieved_facts_for_query = Some(<<>>),
                               !.error_message = "Query LLM not configured."],
             db |-> d, users |-> u]
       ELSE IF c.kind = "raise" THEN done(<<>>, "Core error in query_facts_node")
       ELSE IF ExtractCompletion(c).status = "no_object"
       THEN done(<<>>, "No JSON object pattern found in query LLM output.")
       ELSE IF ExtractCompletion(c).status = "decode_error"
       THEN done(<<>>, "Query structure JSON parse error")
       ELSE LET q == IF DecodedWhole(c) THEN c.value ELSE EmptyQuery
                r == ResolveQueryOnStore(d, u, s.user_id, q)
            IN IF ~ParsedQuery(q)
               THEN done(<<>>, "Query structure Pydantic validation failed")
               ELSE ReturnResolved(s, r)

\* The query the node resolved, if it came that far.
ResolvedQuery(configured, c) ==
    IF configured /\ c.kind = "text" /\ ExtractCompletion(c).status = "ok"
       /\ ParsedQuery(IF DecodedWhole(c) THEN c.value ELSE EmptyQuery)
    THEN Some(IF DecodedWhole(c) THEN c.value ELSE EmptyQuery)
    ELSE None

query_facts_node ==
    /\ pc = "query_user_facts"
    /\ \E c \in (IF cfg.query_understanding_llm THEN Completions(QueryValues)
                 ELSE {[kind |-> "not_configured"]}) :
          LET r == QueryFacts(state, db, users, cfg.query_understanding_llm, c)
          IN /\ NodeDone("query_user_facts", r.ret, WorkflowEdge("query_user_facts"))
             /\ db' = r.db
             /\ users' = r.users
             /\ obs' = [obs EXCEPT !.query = ResolvedQuery(cfg.query_understanding_llm, c),
                                   !.extraction =
                                       ExtractionStatus(cfg.query_understanding_llm, c,
                                           cfg.query_understanding_llm /\ c.kind = "text"
                                               /\ (~DecodedWhole(c) \/ ParsedQuery(c.value)))]
    /\ UNCHANGED <<session, toolCalls, cfg, prompts, probe>>

-----------------------------------------------------------------------------
(* The composer: generate_response_node (agent_graph.py lines 630-704) *)

\* Tool results in which str(tool_result).lower() holds "error" or "sorry"
\* (lines 665 and 701).
SorryTexts ==
    { "Sorry, I couldn't find it on Spotify to play.",
      "I'm sorry, I couldn't quite understand the details for the email.",
      "Sorry, I couldn't send the email. The service said: ...",
      "Sorry, I couldn't search your emails. The service said: ...",
      "Sorry, I couldn't read that email. Gmail service said: ..." }

MentionsErrorOrSorry(text) == text \in SorryTexts

\* Lines 663-669: the system note is added for a carried error that the tool
\* result does not already tell.
SystemNote(s) ==
    /\ Truthy(s.error_message)
    /\ ~(Truthy(s.tool_result) /\ MentionsErrorOrSorry(s.tool_result))

\* What conversational_llm.invoke may do: reply with a text (possibly empty
\* once stripped) or raise.
ReplyOutcomes == {[kind |-> "text", text |-> "reply"], [kind |-> "text", text |-> ""],
                  [kind |-> "raise", text |-> ""]}

FallbackReply ==
    "I had a little trouble formulating that response. Could you try asking in a different way?"

\* A variant of the composer that sets no reply when it cannot compose one.
GenerateResponseLeavesNoReply(s, configured, llm) ==
    IF configured /\ llm.kind = "text"
    THEN [s EXCEPT !.response = llm.text, !.error_message = Null]
    ELSE [s EXCEPT !.error_message = "Error in generate_response"]

\* A variant of the composer that keeps a carried error which the tool result
\* tells of.
GenerateResponseKeepsToolError(s, configured, llm) ==
    IF ~configured
    THEN [s EXCEPT !.response = "LLM not available.",
                   !.error_message = "Conversational LLM not configured."]
    ELSE IF llm.kind = "raise"
    THEN [s EXCEPT !.response = FallbackReply,
                   !.error_message = "Error in generate_response"]
    ELSE [s EXCEPT !.response = llm.text,
                   !.error_message =
                       IF Truthy(s.tool_result) /\ MentionsErrorOrSorry(s.tool_result)
                       THEN s.error_message ELSE Null]

\* The value the node returns.
GenerateResponse(s, configured, llm) ==
    IF ~configured
    THEN [s EXCEPT !.response = "LLM not available.",
                   !.error_message = "Conversational LLM not configured."]
    ELSE IF llm.kind = "raise"
    THEN [s EXCEPT !.response = FallbackReply,
                   !.error_message = "Error in generate_response"]
    ELSE [s EXCEPT !.response = llm.text, !.error_message = Null]

\* What the node hands to the model (lines 677-682).
PromptInput(s) ==
    [system_note |-> SystemNote(s), chat_history |-> s.chat_history,
     retrieved_facts |-> s.retrieved_facts_for_query, action_result |-> s.tool_result]

generate_response_node ==
    /\ pc = "generate_athena_response"
    /\ \E llm \in (IF cfg.conversational_llm THEN ReplyOutcomes
                   ELSE {[kind |-> "not_configured", text |-> ""]}) :
          /\ NodeDone("generate_athena_response",
                      GenerateResponse(state, cfg.conversational_llm, llm),
                      WorkflowEdge("generate_athena_response"))
          /\ obs' = [obs EXCEPT !.prompt =
                        IF cfg.conversational_llm THEN Some(PromptInput(state)) ELSE None]
    /\ UNCHANGED <<db, users, session, toolCalls, cfg, prompts, probe>>

-----------------------------------------------------------------------------
(* The chat loop: streamlit_app.py lines 129-199 *)

Prompts == {"hello"}

HumanMessage(content) == [type |-> "human", content |-> content]
AIMessage(content) == [type |-> "ai", content |-> content]

\* Lines 86-90 and 144-148: the profile kept in the session.
ProfileDetails(u, user_id) ==
    IF user_id \in DOMAIN u
    THEN [username |-> u[user_id].username, location |-> u[user_id].location,
          hobbies |-> u[user_id].hobbies_json, jobs |-> u[user_id].job_json,
          preferences |-> u[user_id].preferences_json]
    ELSE [username |-> "sam"]

\* Lines 156-165: the state a turn starts from.
NewAgentState(prompt, history_for_agent, sess) ==
    [input |-> prompt,
     chat_history |-> history_for_agent,
     user_id |-> sess.user_id,
     user_profile |-> sess.user_profile_details,
     decision_outcome |-> Null,
     extracted_entities_json |-> None,
     tool_parameters |-> None,
     tool_result |-> Null,
     retrieved_facts_for_query |-> None,
     response |-> Null,
     error_message |-> Null,
     last_email_search_results |-> sess.last_email_search_results]

NoObservation(d) ==
    [routing |-> [kind |-> "none", text |-> <<>>],
     batch |-> <<>>,
     query |-> None,
     extraction |-> "none",
     prompt |-> None,
     dbAtStart |-> d]

IdleState == [input |-> Null]

\* Lines 129-168: a prompt is submitted and the graph is invoked on a new state.
SubmitFrom(texts) ==
    /\ pc = "idle"
    /\ prompts < MaxPrompts
    /\ \E prompt \in texts :
          LET chat_history == Append(session.chat_history, HumanMessage(prompt))
              history_for_agent == SubSeq(chat_history, 1, Len(chat_history) - 1)
          IN /\ session' = [session EXCEPT !.chat_history = chat_history]
             /\ state' = NewAgentState(prompt, history_for_agent, session)
    /\ pc' = "decide_action"
    /\ trace' = <<>>
    /\ toolCalls' = <<>>
    /\ obs' = NoObservation(db)
    /\ prompts' = prompts + 1
    /\ UNCHANGED <<db, users, cfg, probe>>

Submit == SubmitFrom(Prompts)

\* Lines 174-185: the text shown for a final state.
ResponseContent(final_state) ==
    IF final_state.decision_outcome = "exit"
    THEN "It was lovely chatting with you. Goodbye for now!"
    ELSE IF final_state.response # Null THEN final_state.response
    ELSE IF ~Truthy(final_state.error_message)
    THEN "I'm not quite sure how to respond to that. Could you try rephrasing?"
    ELSE "I encountered an issue. Please try again."

\* Lines 187-191: the reply shown when app_runnable.invoke raised.
TroubleReply ==
    "I'm having some trouble connecting right now. Please try again in a moment."

\* A variant of the end of the handler that remembers no reply for a turn that
\* decided exit.
FinishSilentOnExit ==
    /\ pc \in {END, RAISED}
    /\ session' = IF pc = RAISED
                  THEN [session EXCEPT !.chat_history = Append(@, AIMessage(TroubleReply))]
                  ELSE IF state.decision_outcome = "exit"
                  THEN [session EXCEPT
                          !.last_email_search_results = state.last_email_search_results]
                  ELSE [session EXCEPT
                          !.last_email_search_results = state.last_email_search_results,
                          !.chat_history = Append(@, AIMessage(ResponseContent(state)))]
    /\ pc' = "idle"
    /\ state' = IdleState
    /\ trace' = <<>>
    /\ toolCalls' = <<>>
    /\ obs' = NoObservation(db)
    /\ UNCHANGED <<db, users, cfg, prompts, probe>>

\* Lines 169-199: the graph has returned or raised; the reply is shown and
\* remembered.
Finish ==
    /\ pc \in {END, RAISED}
    /\ session' = IF pc = RAISED
                  THEN [session EXCEPT !.chat_history = Append(@, AIMessage(TroubleReply))]
                  ELSE [session EXCEPT
                          !.last_email_search_results = state.last_email_search_results,
                          !.chat_history = Append(@, AIMessage(ResponseContent(state)))]
    /\ pc' = "idle"
    /\ state' = IdleState
    /\ trace' = <<>>
    /\ toolCalls' = <<>>
    /\ obs' = NoObservation(db)
    /\ UNCHANGED <<db, users, cfg, prompts, probe>>

-----------------------------------------------------------------------------
(* The whole system *)

SessionUser == 1

InitialUsers ==
    (1 :> [username |-> "sam", location |-> "Austin", hobbies_json |-> <<"chess">>,
           job_json |-> <<>>, preferences_json |-> <<>>])
    @@ (2 :> [username |-> "kim", location |-> "Oslo", hobbies_json |-> <<"sailing">>,
              job_json |-> <<"nurse">>, preferences_json |-> <<>>])

InitialStore ==
    << [id |-> 1, user_id |-> 2, entity_type |-> "pet",
        details_json |-> Dict([name |-> "Rex", species |-> "dog"])],
       [id |-> 2, user_id |-> 1, entity_type |-> "pet",
        details_json |-> Dict([name |-> "Milo", species |-> "cat", breed |-> "Tabby"])] >>

\* get_llm gives None without an API key or when the client cannot be built;
\* a service is None when its constructor raised (lines 86-103).
AllConfigured ==
    [routing_llm |-> TRUE, fact_extraction_llm |-> TRUE, query_understanding_llm |-> TRUE,
     conversational_llm |-> TRUE, tool_param_extraction_llm |-> TRUE,
     spotify_service |-> TRUE, gmail_service |-> TRUE]

Configurations ==
    {AllConfigured}
    \cup {[AllConfigured EXCEPT ![k] = FALSE] : k \in DOMAIN AllConfigured}
    \cup {[k \in DOMAIN AllConfigured |-> k \in {"spotify_service", "gmail_service"}]}

NoProbe == [kind |-> "none"]

\* The routing completions of the turns.
TurnRouterTexts ==
    {<<w>> : w \in AllowedSet}
    \cup {<<OTHER_WORD>>, <<>>, <<THINK_OPEN, PROSE, THINK_CLOSE>>,
          <<THINK_OPEN, PROSE, THINK_CLOSE, "EXIT", PROSE>>}

Init ==
    /\ state = IdleState
    /\ pc = "idle"
    /\ trace = <<>>
    /\ db = InitialStore
    /\ users = InitialUsers
    /\ session = [user_id |-> SessionUser, username |-> "sam", chat_history |-> <<>>,
                  user_profile_details |-> ProfileDetails(InitialUsers, SessionUser),
                  last_email_search_results |-> None]
    /\ toolCalls = <<>>
    /\ cfg \in Configurations
    /\ obs = NoObservation(InitialStore)
    /\ prompts = 0
    /\ probe = NoProbe

Next ==
    \/ Submit
    \/ agent_decision_node(TurnRouterTexts)
    \/ extract_general_facts_node
    \/ query_facts_node
    \/ extract_spotify_action_parameters_node
    \/ extract_gmail_send_parameters_node
    \/ extract_gmail_search_parameters_node
    \/ extract_gmail_read_parameters_node
    \/ spotify_action_node
    \/ gmail_send_action_node
    \/ gmail_search_action_node
    \/ gmail_read_action_node
    \/ generate_response_node
    \/ Finish

Spec == Init /\ [][Next]_vars

\* app_runnable.invoke runs the graph to its end within the call (line 168 of
\* streamlit_app.py): a node that can run does run.  Nothing obliges the user
\* to submit, nor the page to be drawn again.
TurnStep ==
    \/ agent_decision_node(TurnRouterTexts)
    \/ extract_general_facts_node
    \/ query_facts_node
    \/ extract_spotify_action_parameters_node
    \/ extract_gmail_send_parameters_node
    \/ extract_gmail_search_parameters_node
    \/ extract_gmail_read_parameters_node
    \/ spotify_action_node
    \/ gmail_send_action_node
    \/ gmail_search_action_node
    \/ gmail_read_action_node
    \/ generate_response_node

SpecLive == Init /\ [][Next]_vars /\ WF_vars(TurnStep)

-----------------------------------------------------------------------------
(* The chat page: prompts, the Clear Chat History button, and a graph whose  *)
(* invocation may raise (streamlit_app.py lines 104-107 and 129-199)         *)

InitChat ==
    /\ state = IdleState
    /\ pc = "idle"
    /\ trace = <<>>
    /\ db = InitialStore
    /\ users = InitialUsers
    /\ session = [user_id |-> SessionUser, username |-> "sam", chat_history |-> <<>>,
                  user_profile_details |-> ProfileDetails(InitialUsers, SessionUser),
                  last_email_search_results |-> None]
    /\ toolCalls = <<>>
    /\ cfg = AllConfigured
    /\ obs = NoObservation(InitialStore)
    /\ prompts = 0
    /\ probe = [kind |-> "chat", cleared_at |-> 0]

\* Lines 104-107: the button empties the history; cleared_at keeps the number
\* of prompts submitted before it.
ClearChatHistory ==
    /\ pc = "idle"
    /\ probe.kind = "chat"
    /\ session.chat_history # <<>>
    /\ session' = [session EXCEPT !.chat_history = <<>>]
    /\ probe' = [probe EXCEPT !.cleared_at = prompts]
    /\ UNCHANGED <<state, pc, trace, db, users, toolCalls, cfg, obs, prompts>>

\* Lines 168 and 187: app_runnable.invoke raises while a node is due; the
\* except clause of the handler takes over.
InvokeRaises ==
    /\ pc \in Nodes
    /\ pc' = RAISED
    /\ UNCHANGED <<state, trace, db, users, session, toolCalls, cfg, obs, prompts, probe>>

NextChat ==
    \/ Submit
    \/ ClearChatHistory
    \/ InvokeRaises
    \/ TurnStep
    \/ Finish

SpecChat == InitChat /\ [][NextChat]_vars

-----------------------------------------------------------------------------
(* The extractor on its own, over every completion of bounded length *)

ProbeTexts == SeqsUpTo(TextTokens, MaxTextLen)

InitExtract ==
    /\ state = IdleState
    /\ pc = "probe"
    /\ trace = <<>>
    /\ db = InitialStore
    /\ users = InitialUsers
    /\ session = [user_id |-> SessionUser, username |-> "sam", chat_history |-> <<>>,
                  user_profile_details |-> ProfileDetails(InitialUsers, SessionUser),
                  last_email_search_results |-> None]
    /\ toolCalls = <<>>
    /\ cfg = AllConfigured
    /\ obs = NoObservation(InitialStore)
    /\ prompts = 0
    /\ \E t \in ProbeTexts :
          probe = [kind |-> "extract", text |-> t, done |-> FALSE,
                   result |-> [status |-> "none", from |-> 0, to |-> 0]]

\* The extractor is applied to the text.
ApplyExtractJson ==
    /\ probe.kind = "extract"
    /\ ~probe.done
    /\ probe' = [probe EXCEPT !.done = TRUE, !.result = ExtractJson(probe.text)]
    /\ UNCHANGED <<state, pc, trace, db, users, session, toolCalls, cfg, obs, prompts>>

NextExtract == ApplyExtractJson

SpecExtract == InitExtract /\ [][NextExtract]_vars

-----------------------------------------------------------------------------
(* The router on its own: every routing completion of bounded length, then  *)
(* the same completion again in another turn                                *)

RouterProbeAllTexts == SeqsUpTo(RouterTokens, MaxRouterLen)

NoRouting == [llm |-> [kind |-> "none", text |-> <<>>], decision |-> Null, next |-> "none"]

\* The surroundings of the second turn: another input, a history, another store.
OtherTurns ==
    { [input |-> "play some jazz",
       chat_history |-> <<HumanMessage("hello"), AIMessage("reply")>>,
       db |-> <<>>, last_email_search_results |-> Some(<<>>)],
      [input |-> "hello",
       chat_history |-> <<>>,
       db |-> InitialStore, last_email_search_results |-> None] }

InitRouter ==
    /\ pc = "decide_action"
    /\ trace = <<>>
    /\ db = InitialStore
    /\ users = InitialUsers
    /\ session = [user_id |-> SessionUser, username |-> "sam",
                  chat_history |-> <<HumanMessage("hello")>>,
                  user_profile_details |-> ProfileDetails(InitialUsers, SessionUser),
                  last_email_search_results |-> None]
    /\ state = NewAgentState("hello", <<>>, session)
    /\ toolCalls = <<>>
    /\ cfg = AllConfigured
    /\ obs = NoObservation(InitialStore)
    /\ prompts = 1
    /\ probe = [kind |-> "router", runs |-> 0, first |-> NoRouting]

\* The completions the routing model may give: any at first, the same again in
\* the second turn.
RouterProbeTexts ==
    IF probe.kind = "router" /\ probe.runs > 0 THEN {probe.first.llm.text}
    ELSE RouterProbeAllTexts

\* A second turn starts; what the first one decided is kept for comparison.
RouteAgain ==
    /\ probe.kind = "router"
    /\ probe.runs = 0
    /\ pc # "decide_action"
    /\ \E turn \in OtherTurns :
          /\ session' = [session EXCEPT
                            !.chat_history = Append(turn.chat_history, HumanMessage(turn.input)),
                            !.last_email_search_results = turn.last_email_search_results]
          /\ state' = NewAgentState(turn.input, turn.chat_history, session')
          /\ db' = turn.db
          /\ obs' = NoObservation(turn.db)
    /\ probe' = [probe EXCEPT !.runs = 1,
                              !.first = [llm |-> obs.routing,
                                         decision |-> state.decision_outcome,
                                         next |-> pc]]
    /\ pc' = "decide_action"
    /\ trace' = <<>>
    /\ UNCHANGED <<users, toolCalls, cfg, prompts>>

NextRouter ==
    \/ agent_decision_node(RouterProbeTexts)
    \/ RouteAgain

SpecRouter == InitRouter /\ [][NextRouter]_vars

-----------------------------------------------------------------------------
(* Properties *)

COMPOSER == "generate_athena_response"

InTurn == pc \in Nodes \cup {END}
Last(q) == q[Len(q)]
Occurrences(q, x) == Cardinality({i \in 1..Len(q) : q[i] = x})
IsPrefix(p, q) == Len(p) <= Len(q) /\ SubSeq(q, 1, Len(p)) = p

\* C1: in every turn whose decision is not exit the composer runs exactly once
\* and is the last step, and the final state holds a reply that is a string.
C1_ComposerRunsOnceAndLast ==
    (pc = END /\ state.decision_outcome # "exit") =>
        /\ trace # <<>>
        /\ Last(trace) = COMPOSER
        /\ Occurrences(trace, COMPOSER) = 1
        /\ state.response # Null

\* A tool turn in which every upstream step failed (a completion with no object,
\* hence no parameters and no capability call) and the composing model raised:
\* the turn still ends in the composer, with the fallback reply.
C1_Witness ==
    /\ pc = END
    /\ state.decision_outcome = "gmail_send_email"
    /\ obs.extraction = "no_object"
    /\ Last(trace) = COMPOSER
    /\ state.response = FallbackReply
    /\ Truthy(state.error_message)

\* C2: when the decision is exit the turn ends right after the router: no other
\* step runs, no entity is written, no capability is called, the reply stays null.
C2_ExitEndsTurnAtOnce ==
    (InTurn /\ state.decision_outcome = "exit") =>
        /\ pc = END
        /\ trace = <<"decide_action">>
        /\ db = obs.dbAtStart
        /\ toolCalls = <<>>
        /\ state.response = Null

\* The second turn of a session ends on the word EXIT that follows a reasoning block.
C2_Witness ==
    /\ pc = END
    /\ prompts = 2
    /\ state.decision_outcome = "exit"
    /\ obs.routing.text = <<THINK_OPEN, PROSE, THINK_CLOSE, "EXIT", PROSE>>
    /\ trace = <<"decide_action">>

\* The step sequences of a whole turn.
ToolKinds == {"spotify_action", "gmail_send", "gmail_search", "gmail_read"}
ExtractionNodeOf(kind) ==
    IF kind = "spotify_action" THEN "extract_spotify_action_parameters"
    ELSE "extract_" \o kind \o "_parameters"
ActionNodeOf(kind) == IF kind = "spotify_action" THEN "spotify_action" ELSE kind \o "_action"

TurnPaths ==
    { <<"decide_action">>,
      <<"decide_action", COMPOSER>>,
      <<"decide_action", "extract_general_user_facts", COMPOSER>>,
      <<"decide_action", "query_user_facts", COMPOSER>> }
    \cup {<<"decide_action", ExtractionNodeOf(k), ActionNodeOf(k), COMPOSER>> : k \in ToolKinds}

\* C3: the steps of a turn are totally ordered router, then fact extraction or
\* fact query or the parameter extraction and the action of one tool kind, then
\* composer; nothing runs after the composer.
C3_StepsTotallyOrdered ==
    /\ pc \in Nodes => \E path \in TurnPaths : IsPrefix(Append(trace, pc), path)
    /\ pc = END => trace \in TurnPaths
    /\ (InTurn /\ trace # <<>> /\ Last(trace) = COMPOSER) => pc = END
    /\ \A i \in 1..Len(trace) : \A k \in ToolKinds :
          trace[i] = ActionNodeOf(k) => (i > 1 /\ trace[i - 1] = ExtractionNodeOf(k))

\* A whole read-email turn: router, extraction, action of the same kind, composer.
C3_Witness ==
    /\ pc = END
    /\ trace = <<"decide_action", "extract_gmail_read_parameters", "gmail_read_action", COMPOSER>>
    /\ toolCalls # <<>>

\* What line 130 makes of a routing outcome is no allowed token.
WordNotAllowed(llm) ==
    \/ llm.kind # "text"
    \/ ExtractDecisionKeyword(llm.text).raised
    \/ ExtractDecisionKeyword(llm.text).word \notin AllowedSet

\* C4: after the router the decision is one of the eight allowed tokens, whatever
\* the model gave; when the word is no allowed token the decision is
\* generate_response and an error is recorded on the turn.
C4_DecisionAlwaysAllowed ==
    (InTurn /\ trace = <<"decide_action">>) =>
        /\ state.decision_outcome \in AllowedSet
        /\ WordNotAllowed(obs.routing) =>
              /\ state.decision_outcome = "generate_response"
              /\ Truthy(state.error_message)
              /\ pc = COMPOSER

\* The prompt's own keyword "other" after a reasoning block.
C4_Witness ==
    /\ pc = COMPOSER
    /\ trace = <<"decide_action">>
    /\ obs.routing.text = <<PROSE, THINK_CLOSE, OTHER_WORD>>
    /\ state.decision_outcome = "generate_response"
    /\ state.error_message = "Routing LLM returned unexpected decision"

\* The state the current turn started from (streamlit_app.py lines 154-165).
TurnStart ==
    NewAgentState(state.input,
                  SubSeq(session.chat_history, 1, Len(session.chat_history) - 1),
                  session)

WithoutErrorText(s) == [s EXCEPT !.error_message = Null]

\* The state the router leaves when the model gives a word outside the vocabulary.
AfterUnknownWord(s) ==
    ChannelWrite(s, AgentDecision(s, TRUE, [kind |-> "text", text |-> <<OTHER_WORD>>]))

\* C5: when the routing model is unavailable (not configured, or its call
\* raises) the router decides generate_response, records an error and leaves the
\* state as in the out-of-vocabulary case, the error text apart.
C5_UnavailableFallsBackLikeUnknownWord ==
    (InTurn /\ trace = <<"decide_action">> /\ obs.routing.kind \in {"not_configured", "raise"}) =>
        /\ state.decision_outcome = "generate_response"
        /\ Truthy(state.error_message)
        /\ WithoutErrorText(state) = WithoutErrorText(AfterUnknownWord(TurnStart))

\* C6: on every way out of the router, when the decision is not query_facts the
\* retrieved facts of the turn are the empty list, up to the composer.
C6_RetrievedFactsResetUnlessQuery ==
    (InTurn /\ trace # <<>> /\ state.decision_outcome # "query_facts") =>
        state.retrieved_facts_for_query = Some(<<>>)

\* The path each decision token selects.
PathOf(decision) ==
    IF decision = "extract_facts" THEN "extract_general_user_facts"
    ELSE IF decision = "query_facts" THEN "query_user_facts"
    ELSE IF decision = "spotify_playback_action" THEN "extract_spotify_action_parameters"
    ELSE IF decision = "gmail_send_email" THEN "extract_gmail_send_parameters"
    ELSE IF decision = "gmail_search_emails" THEN "extract_gmail_search_parameters"
    ELSE IF decision = "gmail_read_email" THEN "extract_gmail_read_parameters"
    ELSE IF decision = "generate_response" THEN COMPOSER
    ELSE END

\* C7: two turns in which the routing model gives the same output get the same
\* decision and the same path, whatever the input, the history and the store;
\* and each allowed token selects its own path.
C7_RoutingDeterministic ==
    /\ (probe.kind = "router" /\ probe.runs = 1 /\ trace = <<"decide_action">>
            /\ obs.routing = probe.first.llm /\ obs.routing.kind = "text") =>
          /\ state.decision_outcome = probe.first.decision
          /\ pc = probe.first.next
    /\ (InTurn /\ trace = <<"decide_action">>) => pc = PathOf(state.decision_outcome)
    /\ \A a, b \in AllowedSet : a # b => PathOf(a) # PathOf(b)

\* The same completion routed twice, the second time with another input, a
\* history and an empty store.
C7_Witness ==
    /\ probe.kind = "router"
    /\ probe.runs = 1
    /\ trace = <<"decide_action">>
    /\ obs.routing = probe.first.llm
    /\ obs.routing.text = <<PROSE, THINK_CLOSE, "Query_Facts">>
    /\ state.input = "play some jazz"
    /\ state.chat_history # <<>>
    /\ db = <<>>
    /\ pc = "query_user_facts"

\* Texts of the shapes the extractor is specified for: prose, then a complete
\* object (its members plain or objects themselves), bare or within a json
\* fence, then prose.  s is a text without reasoning blocks; the object is
\* s[i..j].
IsProse(s, from, to) == \A k \in from..to : s[k] = PROSE
CompleteObject(s, i, j) ==
    /\ s[i] = LB
    /\ RawDecode(SubSeq(s, i, Len(s))) = j - i + 1
    /\ \A k \in i..(j - 1) : s[k] = LB => s[k + 1] # LB
HoldsObjectAt(s, i, j) ==
    /\ CompleteObject(s, i, j)
    /\ \/ IsProse(s, 1, i - 1) /\ IsProse(s, j + 1, Len(s))
       \/ /\ i > 1 /\ s[i - 1] = FENCE_OPEN /\ IsProse(s, 1, i - 2)
          /\ j < Len(s) /\ s[j + 1] = FENCE_CLOSE /\ IsProse(s, j + 2, Len(s))

\* C8: from every completion that holds a complete object, bare or fenced, after
\* an optional reasoning block or prose and before optional trailing text, nested
\* objects included, the extractor decodes that object.
C8_FirstCompleteObjectDecoded ==
    (probe.kind = "extract" /\ probe.done) =>
        LET s == StripThink(probe.text)
        IN \A i \in 1..Len(s) : \A j \in i..Len(s) :
              HoldsObjectAt(s, i, j) =>
                  probe.result = [status |-> "ok", from |-> i, to |-> j]

ExtractionNodes ==
    {"extract_general_user_facts", "query_user_facts"} \cup {ExtractionNodeOf(k) : k \in ToolKinds}

ExtractionFailed == obs.extraction \in {"no_object", "decode_error", "validation_error"}

\* What an extraction step leaves when it extracted nothing.
NothingExtracted(node) ==
    IF node = "extract_general_user_facts" THEN state.extracted_entities_json = Some(<<>>)
    ELSE IF node = "query_user_facts" THEN state.retrieved_facts_for_query = Some(<<>>)
    ELSE state.tool_parameters = None

\* C9: when extraction fails on a completion (no object, an object that cannot be
\* decoded, a schema violation) the step ends with an error recorded and nothing
\* extracted, and in that turn no entity is persisted and no capability is called.
C9_FailedExtractionHasNoEffect ==
    (InTurn /\ ExtractionFailed) =>
        /\ db = obs.dbAtStart
        /\ toolCalls = <<>>
        /\ Last(trace) \in ExtractionNodes =>
              /\ Truthy(state.error_message)
              /\ NothingExtracted(Last(trace))
              /\ pc = WorkflowEdge(Last(trace))

\* A Spotify turn whose completion held an object the schema refuses: the action
\* step ran, without a capability call.
C9_Witness ==
    /\ pc = END
    /\ obs.extraction = "validation_error"
    /\ trace = <<"decide_action", "extract_spotify_action_parameters", "spotify_action", COMPOSER>>
    /\ state.tool_parameters = None
    /\ toolCalls = <<>>
    /\ db = obs.dbAtStart

\* The facts of a batch that can be persisted.
Persistable(batch) ==
    {i \in 1..Len(batch) : batch[i].kind = "fact" /\ batch[i].details.isDict}

\* C10: when persisting one fact of a batch fails, every other fact of the batch,
\* those after it included, is persisted and reported in extracted_entities_json.
C10_PersistenceFailuresPerEntity ==
    (InTurn /\ trace # <<>> /\ Last(trace) = "extract_general_user_facts"
        /\ \E i \in 1..Len(obs.batch) : obs.batch[i] = FactBadDetails) =>
        /\ Len(db) = Len(obs.dbAtStart) + Cardinality(Persistable(obs.batch))
        /\ Len(state.extracted_entities_json.v) = Cardinality(Persistable(obs.batch))

-----------------------------------------------------------------------------
(* Properties of the fact-extraction path *)

AfterFactExtraction ==
    InTurn /\ trace # <<>> /\ Last(trace) = "extract_general_user_facts"

\* The rows the store gained in the current turn.
NewRows == SubSeq(db, Len(obs.dbAtStart) + 1, Len(db))

\* A fact of a dated event that carries a free-text date expression.
IsDatedEvent(entity_type, details) ==
    entity_type = "event" /\ details.isDict /\ "date_text" \in DOMAIN details.map

\* The keys the model gives in the details of its facts.
ReturnedDetailKeys == UNION {DOMAIN f.details.map : f \in {g \in FactItems : g.details.isDict}}

\* C11: every extracted fact of a dated event whose details hold a free-text
\* date expression is persisted with the interpretation of that expression
\* attached under a key of its own, the original phrasing kept.
C11_DatedEventsCarryInterpretation ==
    AfterFactExtraction =>
        \A i \in 1..Len(NewRows) :
            IsDatedEvent(NewRows[i].entity_type, NewRows[i].details_json) =>
                /\ "date_text" \in DOMAIN NewRows[i].details_json.map
                /\ \E k \in DOMAIN NewRows[i].details_json.map : k \notin ReturnedDetailKeys

\* The (type, details) pairs of the facts of a batch that can be persisted, in
\* the order of the batch.
RECURSIVE PersistableFacts(_)
PersistableFacts(batch) ==
    IF batch = <<>> THEN <<>>
    ELSE IF Head(batch).kind = "fact" /\ Head(batch).details.isDict
    THEN <<[entity_type |-> Head(batch).entity_type, details_json |-> Head(batch).details]>>
             \o PersistableFacts(Tail(batch))
    ELSE PersistableFacts(Tail(batch))

\* C12: after the fact-extraction step extracted_entities_json lists exactly the
\* entities persisted in this turn, in the order the model returned them, with
\* id, type and details; every returned fact is a new entity of the user of the
\* turn and no entity that existed is changed.
C12_ExtractedEntitiesArePersistedFacts ==
    AfterFactExtraction =>
        /\ ~state.extracted_entities_json.isNone
        /\ state.extracted_entities_json.v =
              [i \in 1..Len(NewRows) |->
                  [id |-> NewRows[i].id, entity_type |-> NewRows[i].entity_type,
                   details_json |-> NewRows[i].details_json]]
        /\ SubSeq(db, 1, Len(obs.dbAtStart)) = obs.dbAtStart
        /\ \A i \in 1..Len(NewRows) :
              /\ NewRows[i].user_id = state.user_id
              /\ \A j \in 1..Len(obs.dbAtStart) : obs.dbAtStart[j].id # NewRows[i].id
        /\ [i \in 1..Len(NewRows) |->
               [entity_type |-> NewRows[i].entity_type, details_json |-> NewRows[i].details_json]]
              = PersistableFacts(obs.batch)

-----------------------------------------------------------------------------
(* The Fact Query Resolver on its own: a parsed query resolved twice against *)
(* a store and a profile                                                    *)

\* A store with entities of several types and owners.
MixedStore ==
    << [id |-> 1, user_id |-> 2, entity_type |-> "pet",
        details_json |-> Dict([name |-> "Rex", species |-> "dog"])],
       [id |-> 2, user_id |-> 1, entity_type |-> "pet",
        details_json |-> Dict([name |-> "Milo", species |-> "cat", breed |-> "Tabby"])],
       [id |-> 3, user_id |-> 1, entity_type |-> "event",
        details_json |-> Dict([title |-> "Dentist", date_text |-> "next Tuesday"])],
       [id |-> 4, user_id |-> 1, entity_type |-> "reminder",
        details_json |-> Dict([description |-> "Buy milk", date_text |-> "next Tuesday"])],
       [id |-> 5, user_id |-> 1, entity_type |-> "pet",
        details_json |-> Dict([name |-> "Rex"])],
       [id |-> 6, user_id |-> 1, entity_type |-> "event",
        details_json |-> Dict([title |-> "Tuesday", description |-> "DENTIST"])],
       [id |-> 7, user_id |-> 1, entity_type |-> "user_hobby",
        details_json |-> Dict([name |-> "gardening"])],
       [id |-> 8, user_id |-> 1, entity_type |-> "user_location",
        details_json |-> Dict([location |-> "Paris"])] >>

\* A store in which the user has one pet more than get_user_entities reads.
CrowdedStore ==
    [i \in 1..(EntityQueryLimit + 1) |->
        [id |-> i, user_id |-> SessionUser, entity_type |-> "pet",
         details_json |-> Dict([name |-> IF i > EntityQueryLimit THEN "Milo" ELSE "Rex"])]]

ResolveStores == {<<>>, InitialStore, MixedStore, CrowdedStore}

ResolveUsers ==
    { InitialUsers,
      [InitialUsers EXCEPT ![SessionUser].location = Null,
                           ![SessionUser].hobbies_json = <<>>,
                           ![SessionUser].job_json = <<"teacher">>] }

ResolveQueries ==
    {q \in QueryValues : ParsedQuery(q)}
    \cup { QueryValue("pet", "milo", Some(<<"breed", "color">>)),
           QueryValue("pet", "Rex", Some(<<"species">>)),
           QueryValue("pet", Null, Some(<<"breed">>)),
           QueryValue("event", "DENTIST", None),
           QueryValue("event", "next", Some(<<"title">>)),
           QueryValue("reminder", "Tuesday", None),
           QueryValue("reminder", "BUY MILK", None),
           QueryValue("personal_info", Null, None),
           QueryValue("personal_info", Null, Some(<<"hobbies">>)),
           QueryValue("user_location", Null, Some(<<"location", "city">>)),
           QueryValue("user_hobby", Null, Some(<<"first">>)),
           QueryValue("user_job", Null, Some(<<>>)),
           QueryValue("user_preference_general", Null, None) }

InitResolve ==
    /\ state = IdleState
    /\ pc = "probe"
    /\ trace = <<>>
    /\ db \in ResolveStores
    /\ users \in ResolveUsers
    /\ session = [user_id |-> SessionUser, username |-> "sam", chat_history |-> <<>>,
                  user_profile_details |-> ProfileDetails(InitialUsers, SessionUser),
                  last_email_search_results |-> None]
    /\ toolCalls = <<>>
    /\ cfg = AllConfigured
    /\ obs = NoObservation(db)
    /\ prompts = 0
    /\ \E q \in ResolveQueries :
          probe = [kind |-> "resolve", query |-> q, results |-> <<>>,
                   store |-> db, users |-> users]

\* The resolver is applied to the query, at most twice.
ApplyResolveQuery ==
    /\ probe.kind = "resolve"
    /\ Len(probe.results) < 2
    /\ LET r == ResolveQueryOnStore(db, users, session.user_id, probe.query)
       IN /\ probe' = [probe EXCEPT !.results = Append(@, r.facts)]
          /\ db' = r.db
          /\ users' = r.users
    /\ UNCHANGED <<state, pc, trace, session, toolCalls, cfg, obs, prompts>>

NextResolve == ApplyResolveQuery

SpecResolve == InitResolve /\ [][NextResolve]_vars

-----------------------------------------------------------------------------
(* Properties of the Fact Query Resolver *)

AttributeAsked(q, a) ==
    /\ ~q.query_attributes.isNone
    /\ \E i \in 1..Len(q.query_attributes.v) : q.query_attributes.v[i] = a

NoAttributesIn(q) == q.query_attributes.isNone \/ q.query_attributes.v = <<>>

\* The query of the probe has been resolved at least once.
Resolved == probe.kind = "resolve" /\ Len(probe.results) >= 1

EntityTypeQuery ==
    /\ Resolved
    /\ Truthy(probe.query.query_entity_type)
    /\ probe.query.query_entity_type \notin ProfileTypes

NoAttributesAsked ==
    probe.query.query_attributes.isNone \/ probe.query.query_attributes.v = <<>>

\* The rule stated for keeping an entity: name, description or title equal to
\* the identifier without regard to case, or, for events, date_text holding it.
KeptByIdentifier(details, entity_type, identifier) ==
    \/ ~Truthy(identifier)
    \/ \E k \in {"name", "description", "title"} \cap DOMAIN details :
          LowerStr(details[k]) = LowerStr(identifier)
    \/ /\ entity_type = "event"
       /\ "date_text" \in DOMAIN details
       /\ Contains(LowerStr(details["date_text"]), LowerStr(identifier))

\* Every entity of the user and of the queried type that the rule keeps, in
\* store order.
EntitiesToKeep ==
    SelectSeq(probe.store, LAMBDA e :
        /\ e.user_id = session.user_id
        /\ e.entity_type = probe.query.query_entity_type
        /\ e.details_json.isDict
        /\ KeptByIdentifier(e.details_json.map, probe.query.query_entity_type,
                            probe.query.query_identifier))

\* C13: on a non-profile type the resolver keeps an entity iff its name,
\* description or title equals the identifier case-insensitively, or the type is
\* event and its date_text contains the identifier; with no identifier every
\* entity of that type of the user is kept. (Stated on queries without
\* attributes, where every entity kept is a fact returned.)
C13_KeepsExactlyMatchingEntities ==
    (EntityTypeQuery /\ NoAttributesAsked) =>
        probe.results[1] =
            [i \in 1..Len(EntitiesToKeep) |->
                [entity_type |-> EntitiesToKeep[i].entity_type,
                 details |-> EntitiesToKeep[i].details_json.map]]

\* The same property on the stores that hold no more rows than one read returns.
C13_HoldsWithinReadLimit ==
    Len(probe.store) <= EntityQueryLimit => C13_KeepsExactlyMatchingEntities

\* The entities the resolver read and matched, in the order read.
MatchedEntities ==
    SelectSeq(get_user_entities(probe.store, session.user_id, probe.query.query_entity_type),
              LAMBDA e :
                  /\ e.details_json.isDict
                  /\ KeptByIdentifier(e.details_json.map, probe.query.query_entity_type,
                                      probe.query.query_identifier))

\* The details of an entity restricted to the requested keys it has.
Projection(details, attributes) ==
    [k \in {a \in DOMAIN details : \E i \in 1..Len(attributes) : attributes[i] = a}
        |-> details[k]]

\* What the rule of C14 gives for an entity: the projection when attributes are
\* asked for, the details whole otherwise.
DetailsToReturn(e) ==
    IF NoAttributesAsked THEN e.details_json.map
    ELSE Projection(e.details_json.map, probe.query.query_attributes.v)

MiloBreedQuery == QueryValue("pet", "Milo", Some(<<"breed">>))

\* C14: with attributes, the details of each fact returned are the projection
\* of the matched entity's details onto the requested keys that exist, and a
\* matched entity with an empty projection contributes no fact; without
\* attributes the details are returned whole. The pet {name: Milo, species:
\* cat, breed: Tabby} asked for with identifier Milo and attributes [breed]
\* yields exactly {entity_type: pet, details: {breed: Tabby}}.
C14_DetailsProjectedOntoAttributes ==
    EntityTypeQuery =>
        LET contributing == SelectSeq(MatchedEntities,
                                      LAMBDA e : DOMAIN DetailsToReturn(e) # {})
        IN /\ probe.results[1] =
                 [i \in 1..Len(contributing) |->
                     [entity_type |-> contributing[i].entity_type,
                      details |-> DetailsToReturn(contributing[i])]]
           /\ (probe.store = InitialStore /\ probe.query = MiloBreedQuery) =>
                 probe.results[1] = << [entity_type |-> "pet", details |-> [breed |-> "Tabby"]] >>

\* The Milo example has been resolved.
C14_Witness ==
    /\ Resolved
    /\ probe.store = InitialStore
    /\ probe.query = MiloBreedQuery
    /\ probe.results[1] = << [entity_type |-> "pet", details |-> [breed |-> "Tabby"]] >>

\* A matched entity without any of the requested keys has contributed no fact,
\* next to one that has contributed its projection.
EmptyProjectionDropped ==
    /\ EntityTypeQuery
    /\ ~NoAttributesAsked
    /\ Len(probe.results[1]) >= 1
    /\ Len(probe.results[1]) < Len(MatchedEntities)

ProfileTypeQuery == Resolved /\ probe.query.query_entity_type \in ProfileTypes

\* The users row of the user of the session, as it was before the query.
ProfileRow == probe.users[session.user_id]

\* The store holds a row of the user under the type asked for.
StoreHasRowOfQueriedType ==
    \E i \in 1..Len(probe.store) :
        /\ probe.store[i].user_id = session.user_id
        /\ probe.store[i].entity_type = probe.query.query_entity_type

\* C17: for each profile-shaped type (personal_info, user_location, user_hobby,
\* user_job, user_preference_general) the resolver answers from the profile and
\* never from the entity store: the location is returned when no attributes are
\* given or location is among them; hobbies and jobs are returned whole when no
\* attributes are given.
C17_ProfileTypesAnsweredFromProfile ==
    ProfileTypeQuery =>
        LET t == probe.query.query_entity_type
            location ==
                IF /\ t \in {"personal_info", "user_location"}
                   /\ (NoAttributesAsked \/ AttributeAsked(probe.query, "location"))
                   /\ Truthy(ProfileRow.location)
                THEN << [type |-> "location", detail |-> ProfileRow.location] >> ELSE <<>>
            hobbies ==
                IF t = "user_hobby" /\ NoAttributesAsked /\ ProfileRow.hobbies_json # <<>>
                THEN << [type |-> "hobbies", details |-> ProfileRow.hobbies_json] >> ELSE <<>>
            jobs ==
                IF t = "user_job" /\ NoAttributesAsked /\ ProfileRow.job_json # <<>>
                THEN << [type |-> "jobs", details |-> ProfileRow.job_json] >> ELSE <<>>
        IN probe.results[1] = location \o hobbies \o jobs

\* The hobbies were asked for while the store holds an entity of type
\* user_hobby of the same user; the answer is the hobbies of the profile.
C17_Witness ==
    /\ ProfileTypeQuery
    /\ probe.query.query_entity_type = "user_hobby"
    /\ StoreHasRowOfQueriedType
    /\ probe.results[1] = << [type |-> "hobbies", details |-> <<"chess">>] >>

\* The location was asked for by attribute and returned.
LocationByAttribute ==
    /\ ProfileTypeQuery
    /\ AttributeAsked(probe.query, "location")
    /\ probe.results[1] = << [type |-> "location", detail |-> "Austin"] >>

-----------------------------------------------------------------------------
(* Properties of the fact query step within a turn *)

\* The parsed query q has nothing to return for the user in the tables d, u.
MatchesNothing(q, d, u, user_id) ==
    IF q.query_entity_type \in ProfileTypes
    THEN /\ ~(/\ q.query_entity_type \in {"personal_info", "user_location"}
              /\ (NoAttributesIn(q) \/ AttributeAsked(q, "location"))
              /\ user_id \in DOMAIN u /\ Truthy(u[user_id].location))
         /\ ~(/\ q.query_entity_type = "user_hobby" /\ NoAttributesIn(q)
              /\ user_id \in DOMAIN u /\ u[user_id].hobbies_json # <<>>)
         /\ ~(/\ q.query_entity_type = "user_job" /\ NoAttributesIn(q)
              /\ user_id \in DOMAIN u /\ u[user_id].job_json # <<>>)
    ELSE \A i \in 1..Len(d) :
            ~(/\ d[i].user_id = user_id
              /\ d[i].entity_type = q.query_entity_type
              /\ d[i].details_json.isDict
              /\ KeptByIdentifier(d[i].details_json.map, q.query_entity_type,
                                  q.query_identifier)
              /\ (NoAttributesIn(q) \/ \E a \in DOMAIN d[i].details_json.map :
                                          AttributeAsked(q, a)))

\* C15: a fact query that matches nothing, an entity store without a row of the
\* requested type included, yields an empty list of retrieved facts, not a null,
\* and records no error on the turn.
C15_NoMatchIsEmptyListAndNoError ==
    [][(/\ query_facts_node
        /\ ~obs'.query.isNone
        /\ MatchesNothing(obs'.query.v, db, users, state.user_id))
       => /\ state'.retrieved_facts_for_query = Some(<<>>)
          /\ state'.error_message = state.error_message]_vars

\* A query for cars, of which the store has none, has been answered.
C15_Witness ==
    /\ ~obs.query.isNone
    /\ obs.query.v.query_entity_type = "car"
    /\ \A i \in 1..Len(db) : db[i].entity_type # "car"
    /\ state.retrieved_facts_for_query = Some(<<>>)
    /\ state.error_message = Null

-----------------------------------------------------------------------------
(* Slot filling over several turns: a dialogue of send-message turns in which *)
(* the parameter model answers from the prompt it is given                   *)

RecipientOnly == "email ann@example.org"
SubjectAndBody == "the subject is Hello and the message is See you"
WholeEmail == "email ann@example.org, the subject is Hello, the message is See you"

SlotUtterances == {RecipientOnly, SubjectAndBody, WholeEmail}

\* What a text says about the email to send.
Stated(text) ==
    IF text = RecipientOnly
    THEN [to |-> <<"ann@example.org">>, subject |-> Null, body |-> Null]
    ELSE IF text = SubjectAndBody
    THEN [to |-> <<>>, subject |-> "Hello", body |-> "See you"]
    ELSE IF text = WholeEmail
    THEN [to |-> <<"ann@example.org">>, subject |-> "Hello", body |-> "See you"]
    ELSE [to |-> <<>>, subject |-> Null, body |-> Null]

\* A variant in which the prompt also carries the conversation so far.
SendPromptTextsWithHistory(s) ==
    [i \in 1..Len(s.chat_history) |-> s.chat_history[i].content] \o <<s.input>>

\* The texts in the prompt of the send extraction: format_kwargs holds the
\* input alone (lines 194-196; line 256 passes no additional_prompt_kwargs, and
\* the template has the one placeholder {input}).
SendPromptTexts(s) == <<s.input>>

\* The latest thing the texts say about a field, if they say anything.
LatestStated(texts, field, nothing) ==
    LET saying == {i \in 1..Len(texts) : Stated(texts[i])[field] # nothing}
    IN IF saying = {} THEN nothing
       ELSE Stated(texts[CHOOSE i \in saying : \A j \in saying : j <= i])[field]

\* The objects a parameter model returns when it fills each field from its
\* prompt and, as the template tells it, sets a field it cannot find to null
\* (or the list to the empty list).
SendValuesFromPrompt(texts) ==
    LET to == LatestStated(texts, "to", <<>>)
    IN {GmailSendValue(t, LatestStated(texts, "subject", Null),
                       LatestStated(texts, "body", Null)) :
           t \in (IF to = <<>> THEN {None, Some(<<>>)} ELSE {Some(to)})}

SlotRouterTexts == {<<"gmail_send_email">>}

extract_gmail_send_parameters_from_prompt ==
    ExtractParametersStepFrom("extract_gmail_send_parameters", "gmail_send",
                              Completions(SendValuesFromPrompt(SendPromptTexts(state))))

\* gmail_send_action_node, with the outcome of the step of each turn kept in
\* probe.steps.
gmail_send_action_recorded ==
    /\ pc = "gmail_send_action"
    /\ \E out \in SendOutcomes :
          LET r == GmailSendAction(state, cfg.gmail_service, out)
          IN /\ NodeDone("gmail_send_action", r.ret, WorkflowEdge("gmail_send_action"))
             /\ toolCalls' = toolCalls \o r.calls
             /\ probe' = [probe EXCEPT !.steps =
                             Append(@, [turn |-> prompts, input |-> state.input,
                                        result |-> r.ret.tool_result, calls |-> r.calls])]
    /\ UNCHANGED <<db, users, session, cfg, obs, prompts>>

InitSlot ==
    /\ state = IdleState
    /\ pc = "idle"
    /\ trace = <<>>
    /\ db = InitialStore
    /\ users = InitialUsers
    /\ session = [user_id |-> SessionUser, username |-> "sam", chat_history |-> <<>>,
                  user_profile_details |-> ProfileDetails(InitialUsers, SessionUser),
                  last_email_search_results |-> None]
    /\ toolCalls = <<>>
    /\ cfg = AllConfigured
    /\ obs = NoObservation(InitialStore)
    /\ prompts = 0
    /\ probe = [kind |-> "slot", steps |-> <<>>]

NextSlot ==
    \/ SubmitFrom(SlotUtterances)
    \/ agent_decision_node(SlotRouterTexts)
    \/ extract_gmail_send_parameters_from_prompt
    \/ gmail_send_action_recorded
    \/ generate_response_node
    \/ Finish

SpecSlot == InitSlot /\ [][NextSlot]_vars

-----------------------------------------------------------------------------
(* Properties of the tool steps *)

\* The fields of a send-message parameter set that are missing, in the order
\* in which they are asked for.
SendFieldsInOrder == <<"recipient", "subject", "body">>

SendFieldMissing(params, field) ==
    IF field = "recipient"
    THEN params.to.isNone \/ params.to.v = <<>> \/ params.to.v[1] \in {Null, ""}
    ELSE IF field = "subject" THEN params.subject \in {Null, ""}
    ELSE params.body \in {Null, ""}

SendIncomplete(params) ==
    \E i \in 1..Len(SendFieldsInOrder) : SendFieldMissing(params, SendFieldsInOrder[i])

FirstMissingSendField(params) ==
    SendFieldsInOrder[CHOOSE i \in 1..Len(SendFieldsInOrder) :
                         /\ SendFieldMissing(params, SendFieldsInOrder[i])
                         /\ \A j \in 1..(i - 1) :
                               ~SendFieldMissing(params, SendFieldsInOrder[j])]

RecipientQuestion ==
    "I'm ready to send an email, but I need to know who it's for. Who should I send it to?"
SubjectQuestion ==
    "Okay, I can send an email to the recipient. What should the subject line be?"
BodyQuestion ==
    "Okay, I'm sending an email. What would you like the body of the email to say?"

QuestionFor(field) ==
    IF field = "recipient" THEN RecipientQuestion
    ELSE IF field = "subject" THEN SubjectQuestion ELSE BodyQuestion

MarkerFor(field) ==
    IF field = "recipient" THEN "Missing recipient."
    ELSE IF field = "subject" THEN "Missing subject." ELSE "Missing email body."

\* C18: on the send-message path, when the extracted parameter set is
\* incomplete the send capability is not called and the step returns the
\* question for the first missing field in the order recipient, subject, body,
\* with the missing-field marker that names that field.
C18_AsksForFirstMissingField ==
    [][(/\ gmail_send_action_node
        /\ cfg.gmail_service
        /\ ~state.tool_parameters.isNone
        /\ SendIncomplete(state.tool_parameters.v))
       => /\ toolCalls' = toolCalls
          /\ state'.tool_result = QuestionFor(FirstMissingSendField(state.tool_parameters.v))
          /\ state'.error_message = MarkerFor(FirstMissingSendField(state.tool_parameters.v))]_vars

\* The recipient was asked for although subject and body had been extracted.
C18_Witness ==
    /\ "gmail_send_action" \in {trace[i] : i \in 1..Len(trace)}
    /\ ~state.tool_parameters.isNone
    /\ state.tool_parameters.v.to = Some(<<>>)
    /\ state.tool_parameters.v.subject = "Hello"
    /\ state.tool_parameters.v.body = "See you"
    /\ state.tool_result = RecipientQuestion
    /\ toolCalls = <<>>

\* Only a recipient was extracted and the subject was asked for.
OnlyRecipientAsksSubject ==
    /\ "gmail_send_action" \in {trace[i] : i \in 1..Len(trace)}
    /\ ~state.tool_parameters.isNone
    /\ state.tool_parameters.v = [to |-> Some(<<"ann@example.org">>), subject |-> Null,
                                  body |-> Null]
    /\ state.tool_result = SubjectQuestion
    /\ toolCalls = <<>>

\* The action keyword under which each Spotify capability is called.
KeywordOfSpotifyCall(op) ==
    IF op \in {"search_spotify", "play_music"} THEN "start"
    ELSE IF op = "pause_playback" THEN "pause"
    ELSE IF op = "skip_track" THEN "skip"
    ELSE "get"

IsText(x) == x # Null

\* C19: a parameter set that failed validation is never handed to a capability:
\* in every state send_email has been called only with a non-empty recipient
\* list, a subject and a body, search_emails only with a string query,
\* read_email only with a string message id, and the Spotify operations only
\* under a validated action keyword, play only with the track a search found.
C19_CapabilitiesGetValidatedParameters ==
    \A i \in 1..Len(toolCalls) :
        LET call == toolCalls[i]
            params == state.tool_parameters
        IN /\ obs.extraction = "ok"
           /\ ~params.isNone
           /\ call.op = "send_email" =>
                 /\ call.args.to # <<>>
                 /\ \A k \in 1..Len(call.args.to) : IsText(call.args.to[k])
                 /\ call.args.to[1] # ""
                 /\ IsText(call.args.subject) /\ call.args.subject # ""
                 /\ IsText(call.args.body) /\ call.args.body # ""
                 /\ params.v = [to |-> Some(call.args.to), subject |-> call.args.subject,
                                body |-> call.args.body]
           /\ call.op = "search_emails" =>
                 IsText(call.args.query) /\ params.v.query = call.args.query
           /\ call.op = "read_email" =>
                 /\ IsText(call.args.messageId) /\ call.args.messageId # ""
                 /\ params.v.message_id = call.args.messageId
           /\ call.service = "spotify" =>
                 /\ IsText(params.v.action)
                 /\ params.v.action = KeywordOfSpotifyCall(call.op)
           /\ call.op = "play_music" =>
                 /\ i > 1
                 /\ toolCalls[i - 1].op = "search_spotify"
                 /\ call.args.spotify_uri = FoundTrackId

\* An email has been handed to send_email.
C19_Witness ==
    /\ Len(toolCalls) = 1
    /\ toolCalls[1] = Call("gmail", "send_email",
                           [to |-> <<"ann@example.org">>, subject |-> "Hello",
                            body |-> "See you"])
    /\ obs.extraction = "ok"

\* A track has been searched for, found and played.
TrackPlayed ==
    /\ Len(toolCalls) = 2
    /\ toolCalls[2].op = "play_music"
    /\ state.tool_parameters.v.action = "start"

\* Each of the other capabilities has been called.
EmailsSearched == \E i \in 1..Len(toolCalls) : toolCalls[i].op = "search_emails"
EmailRead == \E i \in 1..Len(toolCalls) : toolCalls[i].op = "read_email"

-----------------------------------------------------------------------------
(* Properties of slot filling over several turns *)

\* The text of an earlier message of the conversation is in the history the
\* turn was given.
InHistory(text) ==
    \E i \in 1..Len(state.chat_history) : state.chat_history[i].content = text

\* The send step of this turn has run on an utterance giving only subject and
\* body, its completion held an object, and the send step before it, on an
\* utterance giving only the recipient, asked for the subject and sent
\* nothing; that utterance is in the history.
SecondSlotTurnDone ==
    /\ probe.kind = "slot"
    /\ Len(probe.steps) >= 2
    /\ state.input = SubjectAndBody
    /\ obs.extraction \in {"ok", "validation_error"}
    /\ LET n == Len(probe.steps)
       IN /\ probe.steps[n].turn = prompts
          /\ probe.steps[n].input = SubjectAndBody
          /\ probe.steps[n - 1].input = RecipientOnly
          /\ probe.steps[n - 1].result = SubjectQuestion
          /\ probe.steps[n - 1].calls = <<>>
    /\ InHistory(RecipientOnly)

\* C20: slot filling over turns completes: after a send-message turn in which
\* only the recipient was extracted (the subject was asked for, nothing sent),
\* a later send-message turn whose utterance gives only subject and body, the
\* earlier exchange being in the history, has send_email called with the
\* remembered recipient and the new subject and body.
C20_SlotFillingCompletes ==
    SecondSlotTurnDone =>
        probe.steps[Len(probe.steps)].calls =
            << Call("gmail", "send_email",
                    [to |-> <<"ann@example.org">>, subject |-> "Hello", body |-> "See you"]) >>

\* In such a turn the recipient is asked for again, or the email is not
\* understood, and nothing is sent.
C20_SecondTurnSendsNothing ==
    SecondSlotTurnDone =>
        /\ toolCalls = <<>>
        /\ state.tool_result \in
              {RecipientQuestion,
               "I'm sorry, I couldn't quite understand the details for the email."}

-----------------------------------------------------------------------------
(* Properties of failure handling *)

FollowUpQuestions == {RecipientQuestion, SubjectQuestion, BodyQuestion}

\* The composer has been handed the state of a send-message turn whose action
\* step asked a follow-up question.
ComposerSawFollowUp ==
    /\ ~obs.prompt.isNone
    /\ "gmail_send_action" \in {trace[i] : i \in 1..Len(trace)}
    /\ state.tool_result \in FollowUpQuestions

\* C21: a partial slot-fill is not an error: when the send-message step asks a
\* follow-up question for a missing field, the composer adds no system note
\* about an upstream error for it.
C21_FollowUpQuestionIsNoError ==
    ComposerSawFollowUp => ~obs.prompt.v.system_note

\* The playback step is about to run on a start action with a title.
StartActionReady ==
    /\ pc = "spotify_action"
    /\ cfg.spotify_service
    /\ ~state.tool_parameters.isNone
    /\ state.tool_parameters.v.action = "start"
    /\ state.tool_parameters.v.song_title \notin {Null, ""}

SuccessTexts ==
    {"Now playing ... on Spotify.", "Playback paused on Spotify.",
     "Skipped to the next track on Spotify.", "Currently playing ...",
     "Email has been sent successfully.",
     "I found some email(s). Here are the first few: ...", "Okay, here's the email ..."}

\* C22: a start action first makes one search limited to a single result and
\* calls play iff that search returned a track with an id, with that track;
\* when the search finds nothing to play, play is not called and the outcome
\* is a not-found message that claims no success.
C22_PlayOnlyAfterSearchFoundTrack ==
    StartActionReady =>
        \A out \in SpotifyOutcomes :
            LET r == SpotifyAction(state, cfg.spotify_service, out)
                plays == {i \in 1..Len(r.calls) : r.calls[i].op = "play_music"}
            IN /\ Len(r.calls) >= 1
               /\ r.calls[1].op = "search_spotify"
               /\ r.calls[1].args.limit = 1
               /\ r.calls[1].args.item_type = "track"
               /\ \A i \in 2..Len(r.calls) : r.calls[i].op # "search_spotify"
               /\ (out.search = "track") <=> (plays # {})
               /\ plays # {} =>
                     /\ plays = {2}
                     /\ r.calls[2].args.spotify_uri = FoundTrackId
               /\ plays = {} =>
                     /\ r.ret.tool_result = "Sorry, I couldn't find it on Spotify to play."
                     /\ r.ret.tool_result \notin SuccessTexts
                     /\ r.ret.error_message = "Song not found for playback."

\* A search was made for a start action, found nothing to play, and the step
\* ended with the not-found message without a play.
C22_Witness ==
    /\ "spotify_action" \in {trace[i] : i \in 1..Len(trace)}
    /\ ~state.tool_parameters.isNone
    /\ state.tool_parameters.v.action = "start"
    /\ Len(toolCalls) = 1
    /\ toolCalls[1].op = "search_spotify"
    /\ state.tool_result = "Sorry, I couldn't find it on Spotify to play."

ActionNodes == {"spotify_action", "gmail_send_action", "gmail_search_action",
                "gmail_read_action"}

\* What a tool that fails does: it returns an error result or raises.
ToolFailures == {"error_dict", ToolRaised}

\* The result of an action step is a failure outcome.
FailureOutcome(r) ==
    /\ r.ret.tool_result \notin SuccessTexts
    /\ r.ret.tool_result # Null
    /\ r.ret.error_message \notin {Null, ""}

\* The Spotify capability called last failed, given what each tool did.
LastSpotifyCallFailed(calls, tools) ==
    /\ calls # <<>>
    /\ LET op == calls[Len(calls)].op
       IN \/ op = "search_spotify" /\ tools.search \in ToolFailures
          \/ op \in {"play_music", "pause_playback", "skip_track"}
                /\ tools.status \in ToolFailures
          \/ op = "get_now_playing" /\ tools.now_playing \in ToolFailures

SpotifyToolBehaviours ==
    {[search |-> a, status |-> b, now_playing |-> c] :
        a \in {"track", "no_tracks"} \cup ToolFailures,
        b \in {"expected_text", "other_text"} \cup ToolFailures,
        c \in {"track"} \cup ToolFailures}

\* What the service methods hand to the action step for those behaviours.
SpotifyServiceResults(tools) ==
    [search |-> NoneForError(InvokeTool(tools.search)),
     status |-> InvokeTool(tools.status),
     now_playing |-> NoneForError(InvokeTool(tools.now_playing))]

CapabilitiesOf(decision) ==
    IF decision = "spotify_playback_action"
    THEN {"search_spotify", "play_music", "pause_playback", "skip_track", "get_now_playing"}
    ELSE IF decision = "gmail_send_email" THEN {"send_email"}
    ELSE IF decision = "gmail_search_emails" THEN {"search_emails"}
    ELSE IF decision = "gmail_read_email" THEN {"read_email"}
    ELSE {}

\* The action step of the turn has run with its service present and a
\* parameter set that lacks nothing.
ActedOnCompleteParameters ==
    /\ trace # <<>>
    /\ \E i \in 1..Len(trace) : trace[i] \in ActionNodes
    /\ ~state.tool_parameters.isNone
    /\ LET params == state.tool_parameters.v
           decision == state.decision_outcome
       IN \/ /\ decision = "gmail_send_email" /\ cfg.gmail_service
             /\ ~SendIncomplete(params)
          \/ /\ decision = "gmail_search_emails" /\ cfg.gmail_service
             /\ params.query # Null
          \/ /\ decision = "gmail_read_email" /\ cfg.gmail_service
             /\ params.message_id \notin {Null, ""}
          \/ /\ decision = "spotify_playback_action" /\ cfg.spotify_service
             /\ \/ params.action \in {"pause", "skip", "get"}
                \/ params.action = "start" /\ params.song_title \notin {Null, ""}

\* C24: capabilities are called only by the action step of the path the
\* decision selects: a turn routed to extract_facts, query_facts,
\* generate_response or exit calls none, a turn routed to one tool kind calls
\* no capability of another, and on a complete parameter set the action step
\* makes exactly one call (for a start action one search, then at most one
\* play).
C24_CapabilitiesCalledOnlyOnSelectedPath ==
    /\ \A i \in 1..Len(toolCalls) :
          /\ toolCalls[i].op \in CapabilitiesOf(state.decision_outcome)
          /\ \E j \in 1..Len(trace) : trace[j] \in ActionNodes
    /\ ActedOnCompleteParameters =>
          IF state.decision_outcome = "spotify_playback_action"
             /\ state.tool_parameters.v.action = "start"
          THEN \/ /\ Len(toolCalls) = 1 /\ toolCalls[1].op = "search_spotify"
               \/ /\ Len(toolCalls) = 2 /\ toolCalls[1].op = "search_spotify"
                  /\ toolCalls[2].op = "play_music"
          ELSE Len(toolCalls) = 1

\* A search turn on a complete parameter set has ended with its one call.
C24_Witness ==
    /\ pc = END
    /\ state.decision_outcome = "gmail_search_emails"
    /\ ActedOnCompleteParameters
    /\ Len(toolCalls) = 1
    /\ toolCalls[1].op = "search_emails"

\* A turn routed to query_facts has ended; no capability was called.
QueryTurnEndedWithoutCall ==
    /\ pc = END
    /\ state.decision_outcome = "query_facts"
    /\ toolCalls = <<>>

ComposerFellBack ==
    /\ pc = END
    /\ state.response = FallbackReply
    /\ state.error_message = "Error in generate_response"

\* The step that has just run.
JustRan(nodes) == InTurn /\ trace # <<>> /\ Last(trace) \in nodes

GmailActionNodes == {"gmail_send_action", "gmail_search_action", "gmail_read_action"}

\* C26: an absent collaborator short-circuits its component with a fixed reply
\* and a tagged error and is not called: without the conversational model the
\* reply is "LLM not available." and the error is set; without a tool service
\* the action step makes no capability call and sets the fixed unavailability
\* outcome and an error; without an extraction or query model the step yields
\* no result and an error; and in every case but the first the composer
\* still runs.
C26_AbsentCollaboratorShortCircuits ==
    /\ (JustRan({COMPOSER}) /\ ~cfg.conversational_llm) =>
          /\ state.response = "LLM not available."
          /\ state.error_message = "Conversational LLM not configured."
          /\ obs.prompt.isNone
    /\ (JustRan({"spotify_action"}) /\ ~cfg.spotify_service) =>
          /\ toolCalls = <<>>
          /\ state.tool_result = "Spotify service is not available."
          /\ state.error_message = "Spotify service not initialized."
          /\ pc = COMPOSER
    /\ (JustRan(GmailActionNodes) /\ ~cfg.gmail_service) =>
          /\ toolCalls = <<>>
          /\ state.tool_result = "Gmail service unavailable."
          /\ state.error_message = "Gmail service not initialized."
          /\ pc = COMPOSER
    /\ (JustRan({ExtractionNodeOf(k) : k \in ToolKinds}) /\ ~cfg.tool_param_extraction_llm) =>
          /\ state.tool_parameters.isNone
          /\ state.error_message = "Tool parameter extraction LLM not configured."
          /\ obs.extraction = "not_configured"
    /\ (JustRan({"query_user_facts"}) /\ ~cfg.query_understanding_llm) =>
          /\ state.retrieved_facts_for_query = Some(<<>>)
          /\ state.error_message = "Query LLM not configured."
          /\ obs.extraction = "not_configured"
          /\ pc = COMPOSER
    /\ (JustRan({"extract_general_user_facts"}) /\ ~cfg.fact_extraction_llm) =>
          /\ state.extracted_entities_json = Some(<<>>)
          /\ state.error_message = "Fact LLM not configured."
          /\ db = obs.dbAtStart
          /\ pc = COMPOSER
    /\ (pc = END /\ state.decision_outcome # "exit") =>
          /\ Last(trace) = COMPOSER
          /\ (~cfg.spotify_service /\ "spotify_action" \in SeqToSet(trace)) => toolCalls = <<>>
          /\ (~cfg.gmail_service /\ GmailActionNodes \cap SeqToSet(trace) # {}) => toolCalls = <<>>
          /\ cfg.conversational_llm => (~obs.prompt.isNone /\ state.response # "LLM not available.")

\* A send turn without the extraction model has ended in a composed reply, and
\* no capability was called.
C26_Witness ==
    /\ pc = END
    /\ ~cfg.tool_param_extraction_llm
    /\ trace = <<"decide_action", "extract_gmail_send_parameters", "gmail_send_action", COMPOSER>>
    /\ obs.extraction = "not_configured"
    /\ toolCalls = <<>>
    /\ state.response = "reply"

\* A playback turn without the Spotify service.
SpotifyAbsentTurnComposed ==
    /\ pc = END
    /\ ~cfg.spotify_service
    /\ "spotify_action" \in SeqToSet(trace)
    /\ state.tool_result = "Spotify service is not available."
    /\ state.response = "reply"

\* A turn without the conversational model.
ComposerAbsentReply ==
    /\ pc = END
    /\ ~cfg.conversational_llm
    /\ state.response = "LLM not available."

-----------------------------------------------------------------------------
(* The entity store on its own: a caller applies the operations of           *)
(* crud_entity.py one after the other, as the test of its __main__ does      *)

MaxCrudOps == 3
MaxRows == 3

CrudIds == 1..MaxRows
MapArgs == {Dict([a |-> "1"]), Dict([b |-> "2"]), Dict([a |-> "2"])}
CrudArgs == MapArgs \cup {NotDict}

InitCrud ==
    /\ state = IdleState
    /\ pc = "crud"
    /\ trace = <<>>
    /\ db = InitialStore
    /\ users = InitialUsers
    /\ session = [user_id |-> SessionUser, username |-> "sam", chat_history |-> <<>>,
                  user_profile_details |-> ProfileDetails(InitialUsers, SessionUser),
                  last_email_search_results |-> None]
    /\ toolCalls = <<>>
    /\ cfg = AllConfigured
    /\ obs = NoObservation(db)
    /\ prompts = 0
    /\ probe = [kind |-> "crud", log |-> <<>>, before |-> db]

\* One operation has been applied: the store it leaves and the entry of the log.
CrudDone(op, entity_id, arg, raised, found, store) ==
    /\ probe.kind = "crud"
    /\ Len(probe.log) < MaxCrudOps
    /\ db' = store
    /\ probe' = [probe EXCEPT !.before = db,
                              !.log = Append(@, [op |-> op, entity_id |-> entity_id,
                                                 arg |-> arg, raised |-> raised,
                                                 found |-> found])]
    /\ UNCHANGED <<state, pc, trace, users, session, toolCalls, cfg, obs, prompts>>

create_user_entity ==
    /\ Len(db) < MaxRows
    /\ \E details \in CrudArgs :
          LET r == CreateUserEntity(db, SessionUser, "pet", details)
          IN CrudDone("create", IF r.raised THEN 0 ELSE r.entity.id, details,
                      r.raised, ~r.raised, r.db)

update_user_entity_details ==
    \E entity_id \in CrudIds, new_details \in CrudArgs :
        LET r == UpdateUserEntityDetails(db, entity_id, new_details)
        IN CrudDone("update", entity_id, new_details, r.raised, r.found, r.db)

merge_user_entity_details ==
    \E entity_id \in CrudIds, details_to_merge \in CrudArgs :
        LET r == MergeUserEntityDetails(db, entity_id, details_to_merge)
        IN CrudDone("merge", entity_id, details_to_merge, r.raised, r.found, r.db)

delete_user_entity ==
    \E entity_id \in CrudIds :
        LET r == DeleteUserEntity(db, entity_id)
        IN CrudDone("delete", entity_id, NotDict, FALSE, r.deleted, r.db)

NextCrud ==
    \/ create_user_entity
    \/ update_user_entity_details
    \/ merge_user_entity_details
    \/ delete_user_entity

SpecCrud == InitCrud /\ [][NextCrud]_vars

-----------------------------------------------------------------------------
(* Properties of the entity store *)

LastOp == probe.log[Len(probe.log)]
Applied(op) == probe.kind = "crud" /\ probe.log # <<>> /\ LastOp.op = op
DetailsOf(d, entity_id) == d[EntityIndex(d, entity_id)].details_json.map
RowsBut(d, entity_id) == SelectSeq(d, LAMBDA row : row.id # entity_id)

\* C27: merge is a shallow key-wise update: new keys are added, overlapping
\* keys take the merged value, keys not mentioned are kept; {a:1} then {b:2}
\* gives a:1 and b:2, {a:1} then {a:2} gives a:2, merging the same map twice
\* equals merging it once; merging into an entity that does not exist returns
\* no entity and changes nothing.
C27_MergeLaw ==
    /\ (Applied("merge") /\ LastOp.found /\ ~LastOp.raised) =>
          LET old == DetailsOf(probe.before, LastOp.entity_id)
              new == DetailsOf(db, LastOp.entity_id)
              arg == LastOp.arg.map
          IN /\ DOMAIN new = DOMAIN old \cup DOMAIN arg
             /\ \A k \in DOMAIN arg : new[k] = arg[k]
             /\ \A k \in DOMAIN old \ DOMAIN arg : new[k] = old[k]
             /\ RowsBut(db, LastOp.entity_id) = RowsBut(probe.before, LastOp.entity_id)
             /\ Len(db) = Len(probe.before)
    /\ (Applied("merge") /\ ~LastOp.found) => (~LastOp.raised /\ db = probe.before)
    /\ probe.kind = "crud" =>
          \A entity_id \in CrudIds :
              LET merge(d, m) == MergeUserEntityDetails(d, entity_id, m).db
                  a1 == Dict([a |-> "1"])
                  a2 == Dict([a |-> "2"])
                  b2 == Dict([b |-> "2"])
              IN IF EntityIndex(db, entity_id) = 0
                 THEN \A m \in MapArgs :
                         /\ merge(db, m) = db
                         /\ ~MergeUserEntityDetails(db, entity_id, m).found
                 ELSE /\ DetailsOf(merge(merge(db, a1), b2), entity_id).a = "1"
                      /\ DetailsOf(merge(merge(db, a1), b2), entity_id).b = "2"
                      /\ DetailsOf(merge(merge(db, a1), a2), entity_id).a = "2"
                      /\ \A m \in MapArgs : merge(merge(db, m), m) = merge(db, m)

\* {a:1} and then {a:2} were merged into the cat, which keeps its name.
C27_Witness ==
    /\ Applied("merge")
    /\ Len(probe.log) = 2
    /\ probe.log[1] = [op |-> "merge", entity_id |-> 2, arg |-> Dict([a |-> "1"]),
                       raised |-> FALSE, found |-> TRUE]
    /\ probe.log[2] = [op |-> "merge", entity_id |-> 2, arg |-> Dict([a |-> "2"]),
                       raised |-> FALSE, found |-> TRUE]
    /\ DetailsOf(db, 2) = [name |-> "Milo", species |-> "cat", breed |-> "Tabby", a |-> "2"]

\* A merge into an entity that is not in the store.
MergedIntoMissingEntity ==
    /\ Applied("merge")
    /\ ~LastOp.found
    /\ LastOp.arg.isDict
    /\ db = probe.before

\* Every stored entity's details is a map.
StoredDetailsAreMaps == \A i \in 1..Len(db) : db[i].details_json.isDict

\* An operation that was handed something that is no map.
AppliedToNonMap ==
    /\ probe.kind = "crud"
    /\ probe.log # <<>>
    /\ LastOp.op \in {"create", "update", "merge"}
    /\ ~LastOp.arg.isDict

\* C28: every stored entity's details is a map in every reachable state:
\* create, replace and merge each reject an argument that is no map with an
\* error and leave the store unchanged.
C28_NonMapArgumentIsRejected ==
    /\ StoredDetailsAreMaps
    /\ AppliedToNonMap => (LastOp.raised /\ db = probe.before)

\* What the operations do hold: an argument that is no map never changes the
\* store, and it is refused with an error whenever the entity exists.
NonMapArgumentLeavesStore ==
    /\ StoredDetailsAreMaps
    /\ AppliedToNonMap =>
          /\ db = probe.before
          /\ LastOp.raised <=> (LastOp.op = "create" \/ LastOp.found)

\* A replace with something that is no map, of an entity that is not stored, has
\* returned without an error.
ReplaceOfMissingEntityNotRefused ==
    /\ AppliedToNonMap
    /\ LastOp.op = "update"
    /\ ~LastOp.found
    /\ ~LastOp.raised

-----------------------------------------------------------------------------
(* Properties of the entity store under the turn flow *)

\* C29: the turn flow never deletes or changes a stored entity: over any
\* sequence of turns the stored entities only grow in number, every entity
\* stored before keeps its id, owner, type and details, and only a turn routed
\* to extract_facts adds entities.
C29_TurnFlowOnlyAddsEntities ==
    [][ /\ IsPrefix(db, db')
        /\ db' # db => /\ pc = "extract_general_user_facts"
                       /\ state.decision_outcome = "extract_facts"
                       /\ \A i \in (Len(db) + 1)..Len(db') :
                             \A j \in 1..Len(db) : db'[i].id # db[j].id ]_vars

\* The second turn of a session has stored a second time, and all that was
\* stored before it is still there.
C29_Witness ==
    /\ pc = END
    /\ prompts = 2
    /\ state.decision_outcome = "extract_facts"
    /\ Len(obs.dbAtStart) > Len(InitialStore)
    /\ Len(db) > Len(obs.dbAtStart)
    /\ IsPrefix(obs.dbAtStart, db)

\* A turn that asked for stored facts has ended with the store it began with.
QueryTurnLeftStore ==
    /\ pc = END
    /\ state.decision_outcome = "query_facts"
    /\ ~state.retrieved_facts_for_query.isNone
    /\ state.retrieved_facts_for_query.v # <<>>
    /\ db = obs.dbAtStart

-----------------------------------------------------------------------------
(* Two callers of merge_user_entity_details, each with a session of its own  *)
(* (SessionLocal, database.py line 40): the rows a session has loaded are    *)
(* its own copies, and its commit writes the whole details column            *)

Sessions == {"A", "B"}
RaceIds == {1, 2, 3}
RaceArgs ==
    {Dict([mood |-> "playful"]), Dict([toy |-> "ball"]), Dict([breed |-> "Super Lab"]), NotDict}

InitRace ==
    /\ state = IdleState
    /\ pc = "race"
    /\ trace = <<>>
    /\ db = InitialStore
    /\ users = InitialUsers
    /\ session = [user_id |-> SessionUser, username |-> "sam", chat_history |-> <<>>,
                  user_profile_details |-> ProfileDetails(InitialUsers, SessionUser),
                  last_email_search_results |-> None]
    /\ toolCalls = <<>>
    /\ cfg = AllConfigured
    /\ obs = NoObservation(db)
    /\ prompts = 0
    /\ \E entity_id \in RaceIds, args \in [Sessions -> RaceArgs] :
          probe = [kind |-> "race", entity_id |-> entity_id,
                   call |-> [s \in Sessions |->
                               [at |-> "start", details_to_merge |-> args[s],
                                current_details |-> NotDict, outcome |-> "none"]]]

\* Lines 68-73: the session loads the row; a missing row ends the call with
\* None, an argument that is no dictionary with ValueError; else the details
\* just loaded are what the call goes on with.
MergeLookup(s) ==
    /\ probe.kind = "race"
    /\ probe.call[s].at = "start"
    /\ LET i == EntityIndex(db, probe.entity_id)
           c == probe.call[s]
       IN probe' = [probe EXCEPT !.call[s] =
                        IF i = 0 THEN [c EXCEPT !.at = "done", !.outcome = "none"]
                        ELSE IF ~c.details_to_merge.isDict
                        THEN [c EXCEPT !.at = "done", !.outcome = "raised"]
                        ELSE [c EXCEPT !.at = "loaded",
                                       !.current_details = db[i].details_json]]
    /\ UNCHANGED <<state, pc, trace, db, users, session, toolCalls, cfg, obs, prompts>>

\* Lines 77-84: the merge of what the session loaded is written to the row and
\* committed.
MergeCommit(s) ==
    /\ probe.kind = "race"
    /\ probe.call[s].at = "loaded"
    /\ LET i == EntityIndex(db, probe.entity_id)
           c == probe.call[s]
       IN /\ db' = [db EXCEPT ![i].details_json =
                                  ShallowMerge(c.current_details, c.details_to_merge)]
          /\ probe' = [probe EXCEPT !.call[s] = [c EXCEPT !.at = "done",
                                                          !.outcome = "entity"]]
    /\ UNCHANGED <<state, pc, trace, users, session, toolCalls, cfg, obs, prompts>>

NextRace ==
    \/ \E s \in Sessions : MergeLookup(s)
    \/ \E s \in Sessions : MergeCommit(s)

SpecRace == InitRace /\ [][NextRace]_vars

\* Both calls have returned an entity.
BothMerged ==
    /\ probe.kind = "race"
    /\ \A s \in Sessions : probe.call[s].at = "done" /\ probe.call[s].outcome = "entity"

\* C30: a merge is atomic for its caller: when two merge calls on the same
\* entity run at the same time, each in its own session, their steps
\* interleaved, no update is lost: the final details hold the keys written by
\* both.
C30_ConcurrentMergesLoseNoUpdate ==
    BothMerged =>
        \A s \in Sessions :
            \A k \in DOMAIN probe.call[s].details_to_merge.map :
                /\ k \in DOMAIN DetailsOf(db, probe.entity_id)
                /\ \/ DetailsOf(db, probe.entity_id)[k] = probe.call[s].details_to_merge.map[k]
                   \/ \E t \in Sessions \ {s} :
                          k \in DOMAIN probe.call[t].details_to_merge.map

\* One call after the other: the cat has the keys of both.
SerialMergesKeepBoth ==
    /\ BothMerged
    /\ probe.entity_id = 2
    /\ DetailsOf(db, 2) = [name |-> "Milo", species |-> "cat", breed |-> "Tabby",
                           mood |-> "playful", toy |-> "ball"]

\* Both calls loaded the cat before either committed; the mood that A merged
\* is gone.
UpdateLost ==
    /\ BothMerged
    /\ probe.entity_id = 2
    /\ probe.call["A"].details_to_merge = Dict([mood |-> "playful"])
    /\ probe.call["B"].details_to_merge = Dict([toy |-> "ball"])
    /\ DetailsOf(db, 2) = [name |-> "Milo", species |-> "cat", breed |-> "Tabby", toy |-> "ball"]

-----------------------------------------------------------------------------
(* Properties of the turn as a whole *)

NoNodeTwice == \A i, j \in 1..Len(trace) : trace[i] = trace[j] => i = j

TurnIsShort == InTurn => (Len(trace) <= 4 /\ NoNodeTwice)

\* C31: every turn ends: whatever the input and whatever the collaborators
\* return or raise, the turn reaches its terminal state after at most four
\* node executions, and no node runs twice in a turn.
C31_EveryTurnTerminates ==
    /\ []TurnIsShort
    /\ (pc \in Nodes) ~> (pc = END)

\* A turn of four nodes in which the calls of the parameter model and of the
\* composing model both raised has ended.
C31_Witness ==
    /\ pc = END
    /\ Len(trace) = 4
    /\ trace[2] = "extract_gmail_search_parameters"
    /\ obs.extraction = "llm_raise"
    /\ state.response = FallbackReply

\* The graph is about to be invoked on the state the handler has built.
TurnBegins == pc = "decide_action" /\ trace = <<>>

\* The fields of a turn that hold what the turn produces.
ProducedFieldsFresh ==
    /\ state.decision_outcome = Null
    /\ state.tool_parameters = None
    /\ state.tool_result = Null
    /\ state.extracted_entities_json = None
    /\ state.retrieved_facts_for_query = None
    /\ state.response = Null
    /\ state.error_message = Null

\* C32: turn state is not shared across turns except for history and profile:
\* in the initial state of the next turn every other field (decision, tool
\* parameters, tool outcome, extracted entities, retrieved facts, reply, error
\* and any other field) is null and carries no value of an earlier turn.
C32_OnlyHistoryAndProfileCarried ==
    TurnBegins =>
        /\ ProducedFieldsFresh
        /\ state.last_email_search_results = None

\* What does hold: all the fields but the remembered search results are null,
\* and history and profile are those of the session.
ProducedFieldsStartFresh ==
    TurnBegins =>
        /\ ProducedFieldsFresh
        /\ state.user_profile = session.user_profile_details
        /\ state.chat_history = SubSeq(session.chat_history, 1, Len(session.chat_history) - 1)
        /\ state.last_email_search_results = session.last_email_search_results

\* The second turn starts with the emails the first turn found.
SearchResultsCarriedIntoTurn ==
    /\ TurnBegins
    /\ prompts = 2
    /\ ~state.last_email_search_results.isNone
    /\ state.last_email_search_results.v # <<>>

-----------------------------------------------------------------------------
(* Properties of the decision token *)

\* The place of the first word after the reasoning block: the word after the
\* closing marker when the completion holds one, else the first word; 0 when
\* there is no such word.
FirstWordPlace(t) ==
    IF \A i \in 1..Len(t) : t[i] # THINK_CLOSE
    THEN IF t = <<>> THEN 0 ELSE 1
    ELSE IF \E i \in 2..Len(t) :
              t[i - 1] = THINK_CLOSE /\ \A j \in i..Len(t) : t[j] # THINK_CLOSE
         THEN CHOOSE i \in 2..Len(t) :
                  t[i - 1] = THINK_CLOSE /\ \A j \in i..Len(t) : t[j] # THINK_CLOSE
         ELSE 0

\* C33: the decision token is the first word after the closing marker of the
\* reasoning block (if there is one), in lower case: a completion whose first
\* word after the block is a valid token in any letter case, whatever words
\* follow, gives that token and records no error.
C33_FirstWordAfterReasoningDecides ==
    (JustRan({"decide_action"}) /\ obs.routing.kind = "text") =>
        LET t == obs.routing.text
            i == FirstWordPlace(t)
        IN (i > 0 /\ Lower(t[i]) \in AllowedSet) =>
              /\ state.decision_outcome = Lower(t[i])
              /\ state.error_message = Null

\* The closing marker, then the token in capitals and one more word.
C33_Witness ==
    /\ JustRan({"decide_action"})
    /\ obs.routing.kind = "text"
    /\ obs.routing.text = <<THINK_CLOSE, "EXIT", PROSE>>
    /\ state.decision_outcome = "exit"
    /\ state.error_message = Null

-----------------------------------------------------------------------------
(* Properties of the composer's input *)

\* The tool outcomes that tell of a failure: the service is absent, or the
\* capability did not do what was asked.
ToolFailureMessages ==
    SorryTexts
    \cup { "Spotify service is not available.", "Gmail service unavailable.",
           "I found the track, but couldn't play it. Spotify said: ...",
           "Could not pause playback. Spotify said: ...",
           "Could not skip track. Spotify said: ...",
           "Could not get current playing information from Spotify." }

ComposerDue == pc = COMPOSER /\ cfg.conversational_llm

\* C34: the composer puts the system note before the input iff an upstream
\* error is carried in and was not already told by a tool-failure message (no
\* tool outcome, or one that is no failure message); with no carried error
\* there is never a note.
C34_NoteIffErrorNotToldByToolFailure ==
    ComposerDue =>
        (PromptInput(state).system_note <=>
            /\ state.error_message \notin {Null, ""}
            /\ state.tool_result \notin ToolFailureMessages)

\* What does hold: no note without a carried error, and a note for every
\* carried error unless the tool outcome holds the word error or sorry.
NoteFollowsWordsOfOutcome ==
    ComposerDue =>
        /\ PromptInput(state).system_note => state.error_message \notin {Null, ""}
        /\ (state.error_message \notin {Null, ""} /\ state.tool_result \notin SorryTexts)
              => PromptInput(state).system_note

\* The composer was told in a note of the absent Gmail service, which the
\* tool outcome already tells.
NoteRepeatsToolFailure ==
    /\ pc = END
    /\ ~obs.prompt.isNone
    /\ obs.prompt.v.system_note
    /\ obs.prompt.v.action_result = "Gmail service unavailable."

-----------------------------------------------------------------------------
(* Properties of the conversation history *)

\* The history the chat handler gave to the graph for the current turn.
SuppliedHistory == SubSeq(session.chat_history, 1, Len(session.chat_history) - 1)

\* C35: no step of a turn adds to, removes from, reorders or duplicates the
\* conversation history: the history the composer hands to the model and the
\* history of the final state are the history the caller supplied, on every
\* path.
C35_HistoryIsTheSuppliedOne ==
    InTurn =>
        /\ state.chat_history = SuppliedHistory
        /\ ~obs.prompt.isNone => obs.prompt.v.chat_history = SuppliedHistory

\* What does hold: the history of the state is the supplied one repeated, once
\* more for every node that has run.
RECURSIVE Repeated(_, _)
Repeated(h, n) == IF n = 0 THEN <<>> ELSE h \o Repeated(h, n - 1)

HistoryDoublesAtEachNode ==
    InTurn => \E n \in 1..16 : state.chat_history = Repeated(SuppliedHistory, n)

\* In the second turn of a session the composer was handed the two messages
\* of the first turn twice over.
ComposerSawHistoryTwice ==
    /\ pc = END
    /\ ~obs.prompt.isNone
    /\ Len(SuppliedHistory) = 2
    /\ obs.prompt.v.chat_history = SuppliedHistory \o SuppliedHistory

\* Prompts submitted since login or since the history was last cleared.
PromptsSinceClear == prompts - probe.cleared_at

Alternates(h) ==
    \A i \in 1..Len(h) : h[i].type = IF i % 2 = 1 THEN "human" ELSE "ai"

\* C36: in the chat loop every prompt appends one human message and then one
\* AI message to the history of the session, also when the graph raises, gives
\* no reply or decides exit: the history alternates human and AI, its length
\* is twice the number of prompts since login or the last clear, and the
\* history handed to the agent for a turn leaves out the prompt of that turn.
C36_HistoryAlternates ==
    LET h == session.chat_history
    IN /\ Alternates(h)
       /\ pc = "idle" => Len(h) = 2 * PromptsSinceClear
       /\ pc # "idle" =>
             /\ Len(h) = 2 * PromptsSinceClear - 1
             /\ h[Len(h)] = HumanMessage(state.input)
       /\ TurnBegins => state.chat_history = SubSeq(h, 1, Len(h) - 1)

\* Two prompts: the graph raised on the first, the second decided exit, and
\* the history holds four messages.
C36_Witness ==
    /\ pc = "idle"
    /\ prompts = 2
    /\ probe.cleared_at = 0
    /\ Len(session.chat_history) = 4
    /\ session.chat_history[2] = AIMessage(TroubleReply)
    /\ session.chat_history[4] = AIMessage("It was lovely chatting with you. Goodbye for now!")

\* A turn after the history was cleared has been answered.
AnsweredAfterClear ==
    /\ pc = "idle"
    /\ prompts = 2
    /\ probe.cleared_at = 1
    /\ Len(session.chat_history) = 2

-----------------------------------------------------------------------------
(* Properties of the remembered email search results *)

SearchRan == "gmail_search_action" \in SeqToSet(trace)

\* What the claim has the search step leave, given what the service returned.
RememberedAfterSearch(s, available, out) ==
    IF ~available THEN None
    ELSE IF s.tool_parameters.isNone \/ s.tool_parameters.v.query = Null THEN Some(<<>>)
    ELSE Some(ParsedSummaries(out))

RememberedInTurn ==
    /\ (InTurn /\ pc # "idle" /\ ~SearchRan) =>
          state.last_email_search_results = session.last_email_search_results
    /\ pc = "gmail_search_action" =>
          \A out \in EmailSearchOutcomes :
              LET r == GmailSearchAction(state, cfg.gmail_service, out)
              IN /\ r.ret.last_email_search_results
                      = RememberedAfterSearch(state, cfg.gmail_service, out)
                 /\ out \in {"empty_text", "empty_list", "error_dict", "none"}
                      => r.ret.last_email_search_results \in {None, Some(<<>>)}
                 /\ r.ret.last_email_search_results = None <=> ~cfg.gmail_service
    /\ pc = "extract_gmail_read_parameters" =>
          LET offered == EmailSearchContext(state.last_email_search_results)
          IN /\ Len(offered) <= SearchContextLimit
             /\ state.last_email_search_results.isNone => offered = <<>>
             /\ ~state.last_email_search_results.isNone
                   => IsPrefix(offered, state.last_email_search_results.v)

\* C37: the remembered email search results change only on a turn that runs
\* the Gmail search action: after it they are the summaries parsed from this
\* turn's search (an empty list when nothing was found or the service gave an
\* error, null when the service is absent), whatever was remembered before;
\* every other path leaves them as they were, and a read turn offers at most
\* the first five of them as context.
C37_SearchResultsChangeOnlyOnSearch ==
    /\ []RememberedInTurn
    /\ [][ /\ session'.last_email_search_results =
                  IF pc = END THEN state.last_email_search_results
                  ELSE session.last_email_search_results
           /\ (pc \in Nodes /\ pc # "gmail_search_action" /\ pc' # RAISED) =>
                  state'.last_email_search_results = state.last_email_search_results ]_vars

\* A read turn that follows a search which found six emails: five are offered.
C37_Witness ==
    /\ pc = "extract_gmail_read_parameters"
    /\ prompts = 2
    /\ ~state.last_email_search_results.isNone
    /\ Len(state.last_email_search_results.v) = SearchContextLimit + 1
    /\ Len(EmailSearchContext(state.last_email_search_results)) = SearchContextLimit

\* A search turn whose service gave an error has replaced the emails remembered
\* from the turn before by the empty list.
FailedSearchReplacedResults ==
    /\ pc = END
    /\ SearchRan
    /\ state.tool_result = "Sorry, I couldn't search your emails. The service said: ..."
    /\ ~session.last_email_search_results.isNone
    /\ session.last_email_search_results.v # <<>>
    /\ state.last_email_search_results = Some(<<>>)

-----------------------------------------------------------------------------
(* Properties of the outcome of tool parameter extraction *)

ToolExtractionNodes == {ExtractionNodeOf(k) : k \in ToolKinds}
ToolActionNodes == {ActionNodeOf(k) : k \in ToolKinds}

ParametersValidated == ~state.tool_parameters.isNone /\ state.error_message = Null
ExtractionRecordedError == state.tool_parameters.isNone /\ Truthy(state.error_message)

\* C38: after a tool parameter extraction step exactly one of the two holds:
\* the tool parameters are a validated map and no error is recorded, or the
\* tool parameters are null and an error is recorded; a tool action step never
\* starts with validated parameters and an extraction error together.
C38_ParametersOrErrorNeverBoth ==
    /\ JustRan(ToolExtractionNodes) =>
          /\ ParametersValidated \/ ExtractionRecordedError
          /\ ~(ParametersValidated /\ ExtractionRecordedError)
          /\ ParametersValidated <=> obs.extraction = "ok"
    /\ pc \in ToolActionNodes =>
          /\ JustRan(ToolExtractionNodes)
          /\ ~(~state.tool_parameters.isNone /\ Truthy(state.error_message))
          /\ \A k \in {"spotify", "gmail_send", "gmail_search", "gmail_read"} :
                \A c \in ParamCompletions(k) :
                    LET r == ExtractParametersWithLlm(k, cfg.tool_param_extraction_llm, c)
                    IN r.params.isNone <=> Truthy(r.error)

\* A send turn whose completion lacked the recipients: the action step starts
\* with null parameters and the error of the validation.
C38_Witness ==
    /\ pc = "gmail_send_action"
    /\ state.tool_parameters.isNone
    /\ state.error_message = "Failed to parse/validate JSON params"

\* A send turn whose completion validated: parameters and no error.
SendParametersValidated ==
    /\ pc = "gmail_send_action"
    /\ ~state.tool_parameters.isNone
    /\ state.tool_parameters.v.to = Some(<<"ann@example.org">>)
    /\ state.error_message = Null

-----------------------------------------------------------------------------
(* Properties of the fact paths across users *)

\* The fact is made of the details of a row of that user and of that type.
OwnEntityFact(fact, d, user_id, entity_type) ==
    /\ fact.entity_type = entity_type
    /\ \E i \in 1..Len(d) :
          /\ d[i].user_id = user_id
          /\ d[i].entity_type = entity_type
          /\ d[i].details_json.isDict
          /\ DOMAIN fact.details \subseteq DOMAIN d[i].details_json.map
          /\ \A a \in DOMAIN fact.details : fact.details[a] = d[i].details_json.map[a]

\* The fact is a column of the users row of that user.
OwnProfileFact(fact, u, user_id) ==
    /\ user_id \in DOMAIN u
    /\ \/ fact.type = "location" /\ fact.detail = u[user_id].location
       \/ fact.type = "hobbies" /\ fact.details = u[user_id].hobbies_json
       \/ fact.type = "jobs" /\ fact.details = u[user_id].job_json

FactsAreOwn(facts, d, u, user_id, q) ==
    \A i \in 1..Len(facts) :
        IF "entity_type" \in DOMAIN facts[i]
        THEN /\ q.query_entity_type \notin ProfileTypes
             /\ OwnEntityFact(facts[i], d, user_id, q.query_entity_type)
        ELSE /\ q.query_entity_type \in ProfileTypes
             /\ OwnProfileFact(facts[i], u, user_id)

FactQueryReadsOwn ==
    /\ InTurn /\ pc # "idle" => state.user_id = session.user_id
    /\ JustRan({"query_user_facts"}) =>
          /\ ~state.retrieved_facts_for_query.isNone
          /\ IF obs.query.isNone THEN state.retrieved_facts_for_query.v = <<>>
             ELSE FactsAreOwn(state.retrieved_facts_for_query.v, db, users,
                              state.user_id, obs.query.v)
    /\ pc = "query_user_facts" =>
          \A user_id \in DOMAIN users : \A q \in QueryValues :
              FactsAreOwn(ResolveQueryOnStore(db, users, user_id, q).facts,
                          db, users, user_id, q)

FactPathWritesOwn ==
    /\ users' = users
    /\ Len(db') >= Len(db)
    /\ \A i \in 1..Len(db) : db'[i] = db[i]
    /\ \A i \in (Len(db) + 1)..Len(db') :
          pc = "extract_general_user_facts" /\ db'[i].user_id = state.user_id

\* C39: every fact returned by a fact query comes from an entity or the profile
\* of the turn's user and, for entity queries, from an entity of exactly the
\* type asked for; every entity created by fact extraction is owned by the
\* turn's user, and no turn changes a row or the profile of another user.
C39_FactPathsStayWithTheUser ==
    /\ []FactQueryReadsOwn
    /\ [][FactPathWritesOwn]_vars

\* A question about all pets, answered from the one pet of the user while the
\* store holds a pet of another user.
C39_Witness ==
    /\ JustRan({"query_user_facts"})
    /\ ~obs.query.isNone
    /\ obs.query.v = QueryValue("pet", Null, None)
    /\ \E i \in 1..Len(db) : db[i].user_id # state.user_id /\ db[i].entity_type = "pet"
    /\ Len(state.retrieved_facts_for_query.v) = 1
    /\ state.retrieved_facts_for_query.v[1].details.name = "Milo"

\* A fact turn has added an entity: it belongs to the user of the turn.
ExtractedEntityIsOwn ==
    /\ JustRan({"extract_general_user_facts"})
    /\ Len(db) > Len(InitialStore)
    /\ db[Len(db)].user_id = state.user_id

====
